---------------------------- MODULE Spec2Model ----------------------------
(***************************************************************************)
(* A model of the media extraction core of mdu-api:                        *)
(*   src/src/processor/extractvideo.ts   the orchestrator extractVideo     *)
(*   src/src/mdu.ts                      the /extract handler, the YouTube *)
(*                                       normalizer and the TikTok chain   *)
(*                                                                         *)
(* JavaScript strings are sequences of one-character strings, so that      *)
(* toLowerCase, includes, startsWith, split, the regular expressions and   *)
(* the percent codecs are computed character by character.  The values     *)
(* undefined, true and false, and a property that an object does not have, *)
(* are one-element sequences whose element is not a character.             *)
(***************************************************************************)
EXTENDS Integers, Sequences, FiniteSets, TLC

VARIABLES
    pc,             \* where the request is: idle, called, detect, a fetch, a stage, done, failed
    request,        \* the VideoExtractRequest handed to extractVideo
    params,         \* extractVideo's params object
    platform,       \* what detectPlatform returned
    result,         \* extractVideo's result: [formats, downloadUrl]
    error,          \* the error the request failed with
    fetches,        \* the number of network calls issued so far
    ran,            \* the stages of extractVideo that have run, in order
    playerResponse, \* YouTube: the response of the watch page fetch
    cleanUrl,       \* TikTok: what sanitizeTikTokUrl returned
    candidates,     \* TikTok: the formats collected by the strategies so far
    extracted,      \* the formats the platform extractor returned
    log,            \* the fetches answered so far: endpoint and response, in order
    peer,           \* the locals of a second call, suspended at an await (Missing: none)
    cipherIn,       \* decodeCipher: the signatureCipher string handed to it
    cipherOut,      \* decodeCipher: what it returned (NotRun before the call)
    mimeIn,         \* getMimeType: the mimeType property of the descriptor
    mimeOut         \* the record pushed for that descriptor (Missing before the call)

requestVars == <<pc, request, params, platform, result, error, fetches, ran,
                 playerResponse, cleanUrl, candidates, extracted, log>>
cipherVars == <<cipherIn, cipherOut>>
mimeVars == <<mimeIn, mimeOut>>
otherVars == <<peer, cipherVars, mimeVars>>
vars == <<requestVars, otherVars>>

-----------------------------------------------------------------------------
(* JavaScript values that are not strings *)

Undefined == <<"#undefined">>
Absent == <<"#absent">>
True == <<"#true">>
False == <<"#false">>
NotRun == <<"#notrun">>

\* JavaScript truthiness of a string-or-special value: "", undefined, false
\* and a missing property are falsy.
Truthy(v) == v # <<>> /\ v # Undefined /\ v # Absent /\ v # False

-----------------------------------------------------------------------------
(* JSON values and objects that may be missing *)

Missing == [missing |-> TRUE]          \* no such element, property or object
InvalidJson == [invalid |-> TRUE]      \* text JSON.parse throws on
JsonNull == [null |-> TRUE]            \* the JSON value null
NotAString == <<"#number">>            \* a truthy JSON value that is no string

-----------------------------------------------------------------------------
(* Characters *)

UpperLetters == <<"A", "B", "C", "D", "E", "F", "G", "H", "I", "J", "K", "L", "M",
                  "N", "O", "P", "Q", "R", "S", "T", "U", "V", "W", "X", "Y", "Z">>
LowerLetters == <<"a", "b", "c", "d", "e", "f", "g", "h", "i", "j", "k", "l", "m",
                  "n", "o", "p", "q", "r", "s", "t", "u", "v", "w", "x", "y", "z">>
DigitChars == <<"0", "1", "2", "3", "4", "5", "6", "7", "8", "9">>

Range(s) == {s[i] : i \in 1..Len(s)}

DigitSet == Range(DigitChars)
UpperSet == Range(UpperLetters)

IsDigit(c) == c \in DigitSet

DigitValue(c) ==
    CASE c = "0" -> 0 [] c = "1" -> 1 [] c = "2" -> 2 [] c = "3" -> 3 [] c = "4" -> 4
      [] c = "5" -> 5 [] c = "6" -> 6 [] c = "7" -> 7 [] c = "8" -> 8 [] c = "9" -> 9

HexChars == DigitSet \cup {"A", "B", "C", "D", "E", "F"}
                              \cup {"a", "b", "c", "d", "e", "f"}

\* The characters encodeURIComponent leaves alone.
UriUnreserved == Range(UpperLetters) \cup Range(LowerLetters) \cup Range(DigitChars)
                 \cup {"-", "_", ".", "!", "~", "*", "'", "(", ")"}

\* The percent codes of the ASCII characters the model's strings can hold:
\* <<character, first hex digit, second hex digit>>.
PercentCodes == {<<" ", "2", "0">>, <<"\"", "2", "2">>, <<"%", "2", "5">>,
                 <<"&", "2", "6">>, <<"+", "2", "B">>, <<",", "2", "C">>,
                 <<"/", "2", "F">>, <<":", "3", "A">>, <<";", "3", "B">>,
                 <<"=", "3", "D">>, <<"?", "3", "F">>, <<"@", "4", "0">>,
                 <<"R", "5", "2">>, <<"U", "5", "5">>}

CharOfCode(h1, h2) == (CHOOSE e \in PercentCodes : e[2] = h1 /\ e[3] = h2)[1]

CodeOfChar(c) == LET e == CHOOSE x \in PercentCodes : x[1] = c
                 IN  <<"%", e[2], e[3]>>

-----------------------------------------------------------------------------
(* String functions of the JavaScript library *)

\* The sequences of at most n elements of S.
RECURSIVE SeqsUpTo(_, _)
SeqsUpTo(S, n) ==
    IF n = 0 THEN {<<>>}
    ELSE LET shorter == SeqsUpTo(S, n - 1)
         IN  shorter \cup {Append(s, c) : s \in shorter, c \in S}

StartsWith(s, prefix) ==
    /\ Len(prefix) <= Len(s)
    /\ SubSeq(s, 1, Len(prefix)) = prefix

\* The positions at which needle occurs in s.
Occurrences(s, needle) ==
    {i \in 1..(Len(s) - Len(needle) + 1) : SubSeq(s, i, i + Len(needle) - 1) = needle}

Includes(s, needle) == needle = <<>> \/ Occurrences(s, needle) # {}

Min(S) == CHOOSE x \in S : \A y \in S : x <= y

ToLowerChar(c) ==
    IF c \in UpperSet
    THEN LowerLetters[CHOOSE i \in 1..Len(UpperLetters) : UpperLetters[i] = c]
    ELSE c

ToLowerCase(s) == [i \in 1..Len(s) |-> ToLowerChar(s[i])]

\* s.split(sep) for a one-character separator: the pieces between separators.
RECURSIVE Split(_, _)
Split(s, sep) ==
    LET at == {i \in 1..Len(s) : s[i] = sep}
    IN  IF at = {} THEN <<s>>
        ELSE <<SubSeq(s, 1, Min(at) - 1)>> \o Split(SubSeq(s, Min(at) + 1, Len(s)), sep)

\* parts.join(sep)
RECURSIVE Join(_, _)
Join(parts, sep) ==
    IF parts = <<>> THEN <<>>
    ELSE IF Len(parts) = 1 THEN parts[1]
    ELSE parts[1] \o sep \o Join(Tail(parts), sep)

\* The value of a string of decimal digits.
RECURSIVE DigitsValueFrom(_, _)
DigitsValueFrom(s, n) ==
    IF n = 0 THEN 0 ELSE 10 * DigitsValueFrom(s, n - 1) + DigitValue(s[n])

DigitsValue(s) == DigitsValueFrom(s, Len(s))

\* The longest run of digits at the start of s.
RECURSIVE LeadingDigits(_)
LeadingDigits(s) ==
    IF s # <<>> /\ IsDigit(s[1]) THEN <<s[1]>> \o LeadingDigits(Tail(s)) ELSE <<>>

\* parseInt(s) for a string without sign or leading blanks; NaN is -1 here
\* (the model never does arithmetic on it).
NaN == -1
ParseInt(s) == IF LeadingDigits(s) = <<>> THEN NaN ELSE DigitsValue(LeadingDigits(s))

-----------------------------------------------------------------------------
(* Percent codecs *)

URIError == <<"#URIError">>

\* Positions of s holding a '%' that no two hex digits follow.
MalformedEscapes(s) ==
    {i \in 1..Len(s) : /\ s[i] = "%"
                       /\ ~(i + 2 <= Len(s) /\ s[i + 1] \in HexChars /\ s[i + 2] \in HexChars)}

RECURSIVE PercentDecode(_)
PercentDecode(s) ==
    IF s = <<>> THEN <<>>
    ELSE IF s[1] = "%" /\ Len(s) >= 3 /\ s[2] \in HexChars /\ s[3] \in HexChars
         THEN <<CharOfCode(s[2], s[3])>> \o PercentDecode(SubSeq(s, 4, Len(s)))
         ELSE <<s[1]>> \o PercentDecode(Tail(s))

\* decodeURIComponent: throws URIError on a malformed escape.
DecodeURIComponent(s) == IF MalformedEscapes(s) # {} THEN URIError ELSE PercentDecode(s)

RECURSIVE EncodeURIComponent(_)
EncodeURIComponent(s) ==
    IF s = <<>> THEN <<>>
    ELSE (IF s[1] \in UriUnreserved THEN <<s[1]>> ELSE CodeOfChar(s[1]))
         \o EncodeURIComponent(Tail(s))

\* The decoding URLSearchParams applies to a name or a value: '+' is a blank,
\* a well-formed escape is decoded, anything else is kept.
PlusToSpace(s) == [i \in 1..Len(s) |-> IF s[i] = "+" THEN " " ELSE s[i]]

FormDecode(s) == PercentDecode(PlusToSpace(s))

\* The characters a serialized query string leaves alone.
FormUnreserved == Range(UpperLetters) \cup Range(LowerLetters) \cup Range(DigitChars)
                  \cup {"*", "-", ".", "_"}

RECURSIVE FormEncode(_)
FormEncode(s) ==
    IF s = <<>> THEN <<>>
    ELSE (IF s[1] \in FormUnreserved THEN <<s[1]>>
          ELSE IF s[1] = " " THEN <<"+">> ELSE CodeOfChar(s[1]))
         \o FormEncode(Tail(s))

\* new URLSearchParams(init): the list of <<name, value>> pairs.
RECURSIVE PairsOf(_)
PairsOf(pieces) ==
    IF pieces = <<>> THEN <<>>
    ELSE LET piece == Head(pieces)
             eq == {i \in 1..Len(piece) : piece[i] = "="}
             name == IF eq = {} THEN piece ELSE SubSeq(piece, 1, Min(eq) - 1)
             value == IF eq = {} THEN <<>> ELSE SubSeq(piece, Min(eq) + 1, Len(piece))
         IN  (IF piece = <<>> THEN <<>> ELSE << <<FormDecode(name), FormDecode(value)>> >>)
             \o PairsOf(Tail(pieces))

URLSearchParams(init) ==
    PairsOf(Split(IF init # <<>> /\ init[1] = "?" THEN Tail(init) ELSE init, "&"))

\* params.get(name): the first value under that name, null (here Undefined)
\* when there is none.
SearchParamsGet(pairs, name) ==
    LET at == {i \in 1..Len(pairs) : pairs[i][1] = name}
    IN  IF at = {} THEN Undefined ELSE pairs[Min(at)][2]

OrEmpty(v) == IF Truthy(v) THEN v ELSE <<>>

-----------------------------------------------------------------------------
(* String literals of the source, and the strings the inputs are built from *)

\* Literals of extractvideo.ts
s_mp4 == <<"m", "p", "4">>
s_highest == <<"h", "i", "g", "h", "e", "s", "t">>
s_video == <<"v", "i", "d", "e", "o">>
s_audio == <<"a", "u", "d", "i", "o">>
s_noWatermark == <<"n", "o", " ", "w", "a", "t", "e", "r", "m", "a", "r", "k">>

\* Literals of mdu.ts
s_true == <<"t", "r", "u", "e">>
s_unknown == <<"u", "n", "k", "n", "o", "w", "n">>
s_http == <<"h", "t", "t", "p">>
s_original == <<"o", "r", "i", "g", "i", "n", "a", "l">>
s_originalNoWatermark ==
    <<"o", "r", "i", "g", "i", "n", "a", "l", " ", "(", "n", "o", " ", "w", "a", "t", "e",
      "r", "m", "a", "r", "k", ")">>
s_originalWatermark ==
    <<"o", "r", "i", "g", "i", "n", "a", "l", " ", "(", "w", "a", "t", "e", "r", "m", "a",
      "r", "k", ")">>
s_originalEmbed ==
    <<"o", "r", "i", "g", "i", "n", "a", "l", " ", "(", "e", "m", "b", "e", "d", ")">>
s_videoMp4 == <<"v", "i", "d", "e", "o", "/", "m", "p", "4">>
s_videoPath == <<"/", "v", "i", "d", "e", "o", "/">>
s_embedPrefix ==
    <<"h", "t", "t", "p", "s", ":", "/", "/", "w", "w", "w", ".", "t", "i", "k", "t", "o",
      "k", ".", "c", "o", "m", "/", "e", "m", "b", "e", "d", "/", "v", "2", "/">>
s_vmHost == <<"v", "m", ".", "t", "i", "k", "t", "o", "k", ".", "c", "o", "m">>
s_vtHost == <<"v", "t", ".", "t", "i", "k", "t", "o", "k", ".", "c", "o", "m">>
s_id == <<"i", "d">>
s_youtubeCom == <<"y", "o", "u", "t", "u", "b", "e", ".", "c", "o", "m", "/">>
s_youtuBe == <<"y", "o", "u", "t", "u", ".", "b", "e", "/">>
s_embed == <<"e", "m", "b", "e", "d">>

\* Platform names (the keys of isPlatform) and the host patterns of detectPlatform
s_youtube == <<"y", "o", "u", "t", "u", "b", "e">>
s_tiktok == <<"t", "i", "k", "t", "o", "k">>
s_hostYoutube == <<"y", "o", "u", "t", "u", "b", "e", ".", "c", "o", "m">>
s_hostYoutuBe == <<"y", "o", "u", "t", "u", ".", "b", "e">>
s_hostTiktok == <<"t", "i", "k", "t", "o", "k", ".", "c", "o", "m">>

\* Request urls
u_youtube ==
    <<"h", "t", "t", "p", "s", ":", "/", "/", "y", "o", "u", "t", "u", ".", "b", "e", "/",
      "X", "X", "X", "X", "X", "X", "X", "X", "X", "X", "X">>
u_youtubeNoId ==
    <<"h", "t", "t", "p", "s", ":", "/", "/", "y", "o", "u", "t", "u", "b", "e", ".", "c",
      "o", "m", "/">>
u_tiktok ==
    <<"h", "t", "t", "p", "s", ":", "/", "/", "w", "w", "w", ".", "t", "i", "k", "t", "o",
      "k", ".", "c", "o", "m", "/", "@", "u", "/", "v", "i", "d", "e", "o", "/", "7">>
u_other ==
    <<"h", "t", "t", "p", "s", ":", "/", "/", "e", "x", "a", "m", "p", "l", "e", ".", "c",
      "o", "m", "/", "x">>

\* Request values: a container in upper case, a quality token per platform
q_MP4 == <<"M", "P", "4">>
q_webm == <<"w", "e", "b", "m">>
q_0P == <<"0", "P">>
q_watermark == <<"W", "a", "t", "e", "r", "m", "a", "r", "k">>

\* Media urls, MIME strings, labels and ciphers of the YouTube player responses
m_a == <<"h", "t", "t", "p", "s", ":", "/", "/", "v", "/", "a">>
m_b == <<"h", "t", "t", "p", "s", ":", "/", "/", "v", "/", "b">>
m_d == <<"h", "t", "t", "p", "s", ":", "/", "/", "v", "/", "d">>
mime_mp4Codecs ==
    <<"v", "i", "d", "e", "o", "/", "m", "p", "4", ";", " ", "c", "o", "d", "e", "c", "s",
      "=", "x">>
mime_mp4 == <<"v", "i", "d", "e", "o", "/", "m", "p", "4">>
mime_audioWebm == <<"a", "u", "d", "i", "o", "/", "w", "e", "b", "m">>
l_1080p60 == <<"1", "0", "8", "0", "p", "6", "0">>
l_2160p == <<"2", "1", "6", "0", "p">>
l_360p == <<"3", "6", "0", "p">>
l_128kbps == <<"1", "2", "8", "k", "b", "p", "s">>
l_hd1080 == <<"h", "d", "1", "0", "8", "0">>
l_hd2160 == <<"h", "d", "2", "1", "6", "0">>
l_medium == <<"m", "e", "d", "i", "u", "m">>
l_tiny == <<"t", "i", "n", "y">>
len_52 == <<"5", "2">>
cipher_c ==
    <<"u", "r", "l", "=", "h", "t", "t", "p", "s", "%", "3", "A", "%", "2", "F", "%", "2",
      "F", "v", "%", "2", "F", "c", "&", "s", "p", "=", "s", "i", "g", "&", "s", "=", "A",
      "B">>
cipher_noUrl == <<"s", "p", "=", "s", "i", "g", "&", "s", "=", "A", "B">>
cipher_badUrl ==
    <<"u", "r", "l", "=", "%", "2", "5", "&", "s", "p", "=", "s", "i", "g", "&", "s", "=", "A",
      "B">>

\* Urls of the TikTok responses
t_1 == <<"h", "t", "t", "p", "s", ":", "/", "/", "t", "/", "1">>
t_2 == <<"h", "t", "t", "p", "s", ":", "/", "/", "t", "/", "2">>
t_relative == <<"/", "v", ".", "m", "p", "4">>
t_final ==
    <<"h", "t", "t", "p", "s", ":", "/", "/", "w", "w", "w", ".", "t", "i", "k", "t", "o",
      "k", ".", "c", "o", "m", "/", "@", "u", "/", "v", "i", "d", "e", "o", "/", "7">>
t_finalQuery ==
    <<"h", "t", "t", "p", "s", ":", "/", "/", "w", "w", "w", ".", "t", "i", "k", "t", "o",
      "k", ".", "c", "o", "m", "/", "@", "u", "/", "v", "i", "d", "e", "o", "/", "7", "?",
      "l", "a", "n", "g", "=", "e", "n", "&", "i", "d", "=", "7">>
t_finalShort ==
    <<"h", "t", "t", "p", "s", ":", "/", "/", "v", "m", ".", "t", "i", "k", "t", "o", "k",
      ".", "c", "o", "m", "/", "Z">>

-----------------------------------------------------------------------------
(* decodeCipher, mdu.ts 277-296 *)

s_url == <<"u", "r", "l">>
s_sp == <<"s", "p">>
s_s == <<"s">>

DecodeBaseUrl(url) == DecodeURIComponent(url)

decodeCipher(signatureCipher) ==
    LET searchParams == URLSearchParams(signatureCipher)
        url == OrEmpty(SearchParamsGet(searchParams, s_url))
        sp == OrEmpty(SearchParamsGet(searchParams, s_sp))
        s == OrEmpty(SearchParamsGet(searchParams, s_s))
        decodedUrl == DecodeBaseUrl(url)
    IN  IF ~Truthy(url) THEN <<>>
        ELSE IF decodedUrl = URIError THEN <<>>      \* the catch block
        ELSE IF Truthy(s) /\ Truthy(sp)
             THEN decodedUrl \o <<"&">> \o sp \o <<"=">> \o EncodeURIComponent(s)
             ELSE decodedUrl

-----------------------------------------------------------------------------
(* The comparators handed to Array.prototype.sort *)

\* parseInt(quality.replace(/[^\d]/g, '') || '0')
DigitsOnlyNumber(quality) ==
    LET digits == SelectSeq(quality, IsDigit)
    IN  IF digits = <<>> THEN 0 ELSE DigitsValue(digits)

\* mdu.ts 352-359
PlayerCompare(a, b) ==
    IF a.type = s_video /\ b.type = s_video
    THEN DigitsOnlyNumber(b.quality) - DigitsOnlyNumber(a.quality)
    ELSE 0

\* mdu.ts 626-631
WatermarkCompare(a, b) ==
    IF Includes(a.quality, s_noWatermark) /\ ~Includes(b.quality, s_noWatermark) THEN -1
    ELSE IF ~Includes(a.quality, s_noWatermark) /\ Includes(b.quality, s_noWatermark) THEN 1
    ELSE 0

\* quality.match(/(\d+)p/)[1]: the first run of digits that a 'p' follows
\* directly, <<>> when there is no match.  run holds the digits read since
\* the last character that was none.
RECURSIVE DigitsBeforeP(_, _)
DigitsBeforeP(quality, run) ==
    IF quality = <<>> THEN <<>>
    ELSE IF IsDigit(Head(quality)) THEN DigitsBeforeP(Tail(quality), Append(run, Head(quality)))
    ELSE IF Head(quality) = "p" /\ run # <<>> THEN run
    ELSE DigitsBeforeP(Tail(quality), <<>>)

getQualityNumber(quality) ==
    LET match == DigitsBeforeP(quality, <<>>)
    IN  IF match = <<>> THEN 0 ELSE DigitsValue(match)

\* The comparator with its operands exchanged.
AscendingRankCompare(a, b) == getQualityNumber(a.quality) - getQualityNumber(b.quality)

\* extractvideo.ts 85-91
YouTubeRankCompare(a, b) == getQualityNumber(b.quality) - getQualityNumber(a.quality)

\* The comparator without its first two lines.
SizeOnlyCompare(a, b) == b.size - a.size

\* extractvideo.ts 117-123: a size is a number, 0 when unknown.
TikTokRankCompare(a, b) ==
    IF Includes(a.quality, s_noWatermark) /\ ~Includes(b.quality, s_noWatermark) THEN -1
    ELSE IF ~Includes(a.quality, s_noWatermark) /\ Includes(b.quality, s_noWatermark) THEN 1
    ELSE b.size - a.size

\* The comparator of each call of sort.
Compare(which, a, b) ==
    CASE which = "player" -> PlayerCompare(a, b)
      [] which = "watermark" -> WatermarkCompare(a, b)
      [] which = "youtube" -> YouTubeRankCompare(a, b)
      [] which = "tiktok" -> TikTokRankCompare(a, b)

-----------------------------------------------------------------------------
(* Array.prototype.sort *)

Perms(n) == {f \in [1..n -> 1..n] : \A i, j \in 1..n : i # j => f[i] # f[j]}

Reorder(seq, f) == [i \in 1..Len(seq) |-> seq[f[i]]]

\* ECMAScript's "consistent comparator" over the elements being sorted.
ConsistentCompare(seq, which) ==
    \A a, b, c \in Range(seq) :
        /\ Compare(which, a, a) = 0
        /\ Compare(which, a, b) = 0 => Compare(which, b, a) = 0
        /\ Compare(which, a, b) = 0 /\ Compare(which, b, c) = 0 => Compare(which, a, c) = 0
        /\ Compare(which, a, b) < 0 /\ Compare(which, b, c) < 0 => Compare(which, a, c) < 0
        /\ Compare(which, a, b) > 0 /\ Compare(which, b, c) > 0 => Compare(which, a, c) > 0

\* A sort that is not stable: elements that compare equal come out in the
\* reverse of the order they stood in.
TiesReversedSorted(seq, which) ==
    LET n == Len(seq)
        Before(i) == {j \in 1..n : \/ Compare(which, seq[j], seq[i]) < 0
                                   \/ Compare(which, seq[j], seq[i]) = 0 /\ j > i}
        place == [i \in 1..n |-> 1 + Cardinality(Before(i))]
    IN  [k \in 1..n |-> seq[CHOOSE i \in 1..n : place[i] = k]]

\* The stable sort under a consistent comparator: an element comes after the
\* elements that compare below it and the equal ones that stood before it.
StableSorted(seq, which) ==
    LET n == Len(seq)
        Before(i) == {j \in 1..n : \/ Compare(which, seq[j], seq[i]) < 0
                                   \/ Compare(which, seq[j], seq[i]) = 0 /\ j < i}
        place == [i \in 1..n |-> 1 + Cardinality(Before(i))]
    IN  [k \in 1..n |-> seq[CHOOSE i \in 1..n : place[i] = k]]

\* What seq.sort(comparator) may leave in seq: the stable sort under a
\* consistent comparator, and an implementation-defined order of the same
\* elements under an inconsistent one.
SortOutcomes(seq, which) ==
    IF ConsistentCompare(seq, which)
    THEN {StableSorted(seq, which)}
    ELSE {Reorder(seq, f) : f \in Perms(Len(seq))}

-----------------------------------------------------------------------------
(* The YouTube normalizer, mdu.ts 298-365 and 441-448 *)

\* A type test that ignores the letter case.
getMimeTypeIgnoringCase(mimeTypeStr) ==
    LET parts == IF mimeTypeStr \in {Absent, Undefined}
                 THEN << <<>>, <<>> >>
                 ELSE Split(Split(mimeTypeStr, ";")[1], "/")
    IN  [mimeType |-> Join(parts, <<"/">>),
         type |-> IF ToLowerCase(parts[1]) = s_audio THEN s_audio ELSE s_video]

getMimeType(mimeTypeStr) ==
    LET parts == IF mimeTypeStr \in {Absent, Undefined}
                 THEN << <<>>, <<>> >>
                 ELSE Split(Split(mimeTypeStr, ";")[1], "/")
    IN  [mimeType |-> Join(parts, <<"/">>),
         type |-> IF parts[1] = s_audio THEN s_audio ELSE s_video]

\* mimeType.split('/')[1] || 'unknown'
ContainerOf(mimeType) ==
    LET parts == Split(mimeType, "/")
    IN  IF Len(parts) >= 2 /\ Truthy(parts[2]) THEN parts[2] ELSE s_unknown

\* A descriptor without a url whose cipher is taken for the url as it is.
FinalUrlUndecoded(format) ==
    IF Truthy(format.url) THEN format.url
    ELSE IF Truthy(format.signatureCipher) THEN format.signatureCipher
    ELSE <<>>

FinalUrl(format) ==
    IF Truthy(format.url) THEN format.url
    ELSE IF Truthy(format.signatureCipher) THEN decodeCipher(format.signatureCipher)
    ELSE <<>>

\* The body of each forEach: the records (none or one) a descriptor adds.
NormalizeDescriptor(format) ==
    LET finalUrl == FinalUrl(format)
        mime == getMimeType(format.mimeType)
    IN  IF Truthy(finalUrl)
        THEN << [quality |-> IF Truthy(format.qualityLabel)
                             THEN format.qualityLabel ELSE format.quality,
                 format |-> ContainerOf(mime.mimeType),
                 mimeType |-> mime.mimeType,
                 type |-> mime.type,
                 size |-> IF Truthy(format.contentLength)
                          THEN ParseInt(format.contentLength) ELSE 0,
                 url |-> finalUrl] >>
        ELSE <<>>

RECURSIVE NormalizeAll(_)
NormalizeAll(descriptors) ==
    IF descriptors = <<>> THEN <<>>
    ELSE NormalizeDescriptor(Head(descriptors)) \o NormalizeAll(Tail(descriptors))

\* The records pushed for adaptiveFormats, then those pushed for formats.
PushedFormats(streamingData) ==
    NormalizeAll(streamingData.adaptiveFormats) \o NormalizeAll(streamingData.formats)

\* The sequences extractFormatsFromPlayerResponse may return.
extractFormatsFromPlayerResponse(response) ==
    IF response.streamingData = Missing THEN {<<>>}
    ELSE SortOutcomes(PushedFormats(response.streamingData), "player")

-----------------------------------------------------------------------------
(* extractVideoId, mdu.ts 368-377 *)

IdChar(c) == c \notin {"\"", "&", "?", "/", " "}

\* The text between 'youtube.com/' and the id: [^\/]+\/.+\/ , (v|e|embed)\/
\* or .*[?&]v=
YoutubeComPath(middle) ==
    \/ \E i \in 2..Len(middle) :
          /\ middle[i] = "/"
          /\ \A k \in 1..(i - 1) : middle[k] # "/"
          /\ Len(middle) >= i + 2
          /\ middle[Len(middle)] = "/"
    \/ middle \in {<<"v", "/">>, <<"e", "/">>, s_embed \o <<"/">>}
    \/ /\ Len(middle) >= 3
       /\ SubSeq(middle, Len(middle) - 2, Len(middle)) \in {<<"?", "v", "=">>, <<"&", "v", "=">>}

\* The positions at which the 11 characters of a video id can start.
VideoIdPositions(url) ==
    {k \in 1..(Len(url) - 10) :
        /\ \A i \in k..(k + 10) : IdChar(url[i])
        /\ \/ k - 1 >= Len(s_youtuBe) /\ SubSeq(url, k - Len(s_youtuBe), k - 1) = s_youtuBe
           \/ \E p \in Occurrences(url, s_youtubeCom) :
                 /\ p + Len(s_youtubeCom) <= k
                 /\ YoutubeComPath(SubSeq(url, p + Len(s_youtubeCom), k - 1))}

\* The id, or Undefined where the code throws 'Invalid YouTube URL'.
extractVideoId(url) ==
    IF VideoIdPositions(url) = {} THEN Undefined
    ELSE SubSeq(url, Min(VideoIdPositions(url)), Min(VideoIdPositions(url)) + 10)

-----------------------------------------------------------------------------
(* The TikTok pipeline, mdu.ts 512-840 *)

\* s.split(sep)[1] for a separator string: undefined when sep does not occur.
SecondPiece(s, sep) ==
    LET at == Occurrences(s, sep)
        rest == SubSeq(s, Min(at) + Len(sep), Len(s))
        more == Occurrences(rest, sep)
    IN  IF at = {} THEN Undefined
        ELSE IF more = {} THEN rest ELSE SubSeq(rest, 1, Min(more) - 1)

\* url.split('/video/')[1]?.split('?')[0]
TikTokVideoId(url) ==
    IF SecondPiece(url, s_videoPath) = Undefined THEN Undefined
    ELSE Split(SecondPiece(url, s_videoPath), "?")[1]

\* mdu.ts 794-804: null is Undefined here.
getEmbedUrl(url) ==
    IF Truthy(TikTokVideoId(url)) THEN s_embedPrefix \o TikTokVideoId(url) ELSE Undefined

\* new URL(u).hostname, for a url 'scheme://host/...'
HostOf(u) ==
    LET afterScheme == SecondPiece(u, <<":", "/", "/">>)
        stops == {i \in 1..Len(afterScheme) : afterScheme[i] \in {"/", "?", "#"}}
    IN  IF stops = {} THEN afterScheme ELSE SubSeq(afterScheme, 1, Min(stops) - 1)

SerializePairs(pairs) ==
    Join([i \in 1..Len(pairs) |-> FormEncode(pairs[i][1]) \o <<"=">> \o FormEncode(pairs[i][2])],
         <<"&">>)

\* mdu.ts 547-568: what sanitizeTikTokUrl makes of the final url of the HEAD
\* request.
SanitizedUrl(finalUrl) ==
    LET parts == Split(finalUrl, "?")
        search == Join(Tail(parts), <<"?">>)
        kept == SelectSeq(URLSearchParams(search), LAMBDA pair : pair[1] = s_id)
    IN  IF HostOf(finalUrl) \in {s_vmHost, s_vtHost} THEN finalUrl
        ELSE IF kept = <<>> THEN parts[1]
        ELSE parts[1] \o <<"?">> \o SerializePairs(kept)

TikTokFormat(quality, url) ==
    [quality |-> quality, format |-> s_mp4, size |-> 0, url |-> url,
     mimeType |-> s_videoMp4, type |-> s_video]

EmptyObject ==
    [videoUrl |-> Absent, playAddr |-> Absent, downloadAddr |-> Absent, playUrl |-> Absent,
     others |-> FALSE]

\* x || {} for a parsed property
OrEmptyObject(v) == IF v \in {Missing, JsonNull} THEN EmptyObject ELSE v

\* mdu.ts 696-737.  [threw, videoData]: Object.keys(null) throws outside the
\* try blocks.
extractVideoData(page) ==
    LET v1 == IF page.jsonLd \in {Missing, InvalidJson} THEN EmptyObject ELSE page.jsonLd
        v2 == IF v1 # EmptyObject THEN v1
              ELSE IF page.nextData \in {Missing, InvalidJson, JsonNull} THEN EmptyObject
              ELSE OrEmptyObject(page.nextData.videoData)
        v3 == IF v2 # EmptyObject THEN v2
              ELSE IF page.sigiState \in {Missing, InvalidJson, JsonNull} THEN EmptyObject
              ELSE OrEmptyObject(page.sigiState.item)
    IN  IF v1 = JsonNull THEN [threw |-> TRUE, videoData |-> EmptyObject]
        ELSE [threw |-> FALSE, videoData |-> v3]

HttpUrl(url) == Truthy(url) /\ StartsWith(url, s_http)

OriginalFormats(urls) == [i \in 1..Len(urls) |-> TikTokFormat(s_original, urls[i])]

\* mdu.ts 739-792.  [threw, formats]: startsWith of a value that is no string
\* throws.
extractFormats(page, videoData) ==
    LET fromTags == SelectSeq(page.videoSrcs, HttpUrl)
        metaUrl == IF Truthy(page.ogVideo) THEN page.ogVideo ELSE page.ogVideoUrl
        fromMeta == IF HttpUrl(metaUrl) THEN <<metaUrl>> ELSE <<>>
        dataUrls == <<videoData.videoUrl, videoData.playAddr,
                      videoData.downloadAddr, videoData.playUrl>>
        fromData == SelectSeq(dataUrls, HttpUrl)
    IN  IF NotAString \in Range(dataUrls) THEN [threw |-> TRUE, formats |-> <<>>]
        ELSE [threw |-> FALSE, formats |-> OriginalFormats(fromTags \o fromMeta \o fromData)]

\* mdu.ts 806-840, after the fetch
extractFromEmbed(response) ==
    IF ~response.ok THEN <<>>
    ELSE LET srcs == SelectSeq(response.videoSrcs, Truthy)
         IN  [i \in 1..Len(srcs) |-> TikTokFormat(s_originalEmbed, srcs[i])]

\* mdu.ts 657-693, after the fetch
extractFromApi(response) ==
    IF ~response.ok \/ response.json \in {InvalidJson, JsonNull} THEN <<>>
    ELSE IF response.json.aweme = Missing THEN <<>>
    ELSE (IF Truthy(response.json.aweme.playAddr)
          THEN <<TikTokFormat(s_originalNoWatermark, response.json.aweme.playAddr)>>
          ELSE <<>>)
         \o (IF Truthy(response.json.aweme.downloadAddr)
             THEN <<TikTokFormat(s_originalWatermark, response.json.aweme.downloadAddr)>>
             ELSE <<>>)

RECURSIVE AtIndices(_, _)
AtIndices(seq, indices) ==
    IF indices = {} THEN <<>>
    ELSE <<seq[Min(indices)]>> \o AtIndices(seq, indices \ {Min(indices)})

\* index === self.findIndex(t => t.url === format.url)
FirstOfEachUrl(formats) ==
    AtIndices(formats, {i \in 1..Len(formats) :
                           \A j \in 1..(i - 1) : formats[j].url # formats[i].url})

\* mdu.ts 618-623
Deduplicated(formats) == FirstOfEachUrl(SelectSeq(formats, LAMBDA f : Truthy(f.url)))

\* mdu.ts 618-631: the sequences fetchTikTokInfo may return for the formats
\* its strategies collected.
TikTokInfoFormats(collected) == SortOutcomes(Deduplicated(collected), "watermark")

-----------------------------------------------------------------------------
(* Platform detection.  The module ./platform (detectPlatform, isPlatform)  *)
(* is not among the sources: it is modelled from the specification, section *)
(* 4.1, as a total classification by host name.                             *)

isPlatform == <<s_youtube, s_tiktok>>

detectPlatform(url) ==
    IF Includes(url, s_hostYoutube) \/ Includes(url, s_hostYoutuBe) THEN s_youtube
    ELSE IF Includes(url, s_hostTiktok) THEN s_tiktok
    ELSE s_unknown

ToUpperChar(c) ==
    IF c \in Range(LowerLetters)
    THEN UpperLetters[CHOOSE i \in 1..Len(LowerLetters) : LowerLetters[i] = c]
    ELSE c

\* platform.charAt(0).toUpperCase() + platform.slice(1)
Capitalize(s) == IF s = <<>> THEN <<>> ELSE <<ToUpperChar(s[1])>> \o Tail(s)

\* extractvideo.ts 167-174
getSupportedPlatforms ==
    Join([i \in 1..Len(isPlatform) |-> Capitalize(isPlatform[i])], <<",", " ">>)

-----------------------------------------------------------------------------
(* The stages of extractVideo, extractvideo.ts 62-155 *)

NoError == [message |-> "", arg |-> <<>>]

\* params: the defaults, then the request's own properties over them.
Defaulted(value, default) == IF Truthy(value) THEN value ELSE default

SpreadOver(defaults, req) ==
    [f \in DOMAIN req |-> IF req[f] # Absent THEN req[f]
                          ELSE IF f \in DOMAIN defaults THEN defaults[f] ELSE Undefined]

DefaultParams(req) ==
    [format |-> Defaulted(req.format, s_mp4),
     quality |-> Defaulted(req.quality, s_highest),
     download |-> Defaulted(req.download, False),
     info |-> Defaulted(req.info, False),
     type |-> Defaulted(req.type, s_video)]

ParamsOf(req) == SpreadOver(DefaultParams(req), req)

\* format.format.toLowerCase() === params.format?.toLowerCase()
FormatFilter(formats, container) ==
    SelectSeq(formats, LAMBDA f : ToLowerCase(f.format) = ToLowerCase(container))

\* format.quality.toLowerCase().includes(params.quality?.toLowerCase() || '')
QualityFilter(formats, quality) ==
    SelectSeq(formats, LAMBDA f : Includes(ToLowerCase(f.quality), ToLowerCase(quality)))

RankOutcomes(formats, plat) ==
    IF plat = s_youtube THEN SortOutcomes(formats, "youtube")
    ELSE SortOutcomes(formats, "tiktok")

TypeFilter(formats, type) == SelectSeq(formats, LAMBDA f : f.type = type)

\* format.url && format.url.length > 0
UrlFilter(formats) == SelectSeq(formats, LAMBDA f : Truthy(f.url) /\ Len(f.url) > 0)

\* The state the stages work on: result.formats, result.downloadUrl, the
\* error thrown (NoError while none is) and the stages that have run.
StageState(formats) ==
    [formats |-> formats, downloadUrl |-> Absent, error |-> NoError, ran |-> <<>>]

\* A filter that never checks what it left.
EmptiedUnchecked(st, stage, formats, message, arg) ==
    [st EXCEPT !.formats = formats, !.ran = Append(@, stage)]

Emptied(st, stage, formats, message, arg) ==
    [st EXCEPT !.formats = formats,
               !.ran = Append(@, stage),
               !.error = IF formats = <<>> THEN [message |-> message, arg |-> arg]
                         ELSE NoError]

\* extractvideo.ts 66-73 and 98-105
FormatStage(st, p) ==
    IF Truthy(p.format)
    THEN Emptied(st, "format", FormatFilter(st.formats, p.format),
                 "No formats matching '' found", p.format)
    ELSE st

\* extractvideo.ts 75-82 and 107-114
QualityStage(st, p) ==
    IF Truthy(p.quality) /\ p.quality # s_highest
    THEN Emptied(st, "quality", QualityFilter(st.formats, p.quality),
                 "No quality matching '' found", p.quality)
    ELSE st

\* extractvideo.ts 84-92 and 116-124: the states the sort may leave.
RankStage(st, p, plat) ==
    IF p.quality = s_highest
    THEN {[st EXCEPT !.formats = ranked, !.ran = Append(@, "rank")] :
             ranked \in RankOutcomes(st.formats, plat)}
    ELSE {st}

\* extractvideo.ts 132-137
TypeStage(st, p) ==
    IF Truthy(p.type)
    THEN Emptied(st, "type", TypeFilter(st.formats, p.type), "No  formats found", p.type)
    ELSE st

\* extractvideo.ts 140-144
UrlStage(st) ==
    Emptied(st, "url", UrlFilter(st.formats), "No valid formats found with URLs", <<>>)

\* extractvideo.ts 147-149: formats[0].url of an empty array throws.
DownloadStage(st, p) ==
    IF ~Truthy(p.download) THEN st
    ELSE IF st.formats = <<>>
    THEN [st EXCEPT !.error = [message |-> "TypeError", arg |-> <<>>],
                    !.ran = Append(@, "download")]
    ELSE [st EXCEPT !.downloadUrl = st.formats[1].url, !.ran = Append(@, "download")]

\* extractvideo.ts 152-155
InfoStage(st, p) ==
    IF Truthy(p.info)
    THEN [st EXCEPT !.formats = <<>>, !.downloadUrl = Absent, !.ran = Append(@, "info")]
    ELSE st

\* Statements that run whatever the earlier ones did.
ThenRegardless(st, next) == next

\* A statement runs only if no earlier one has thrown.
Then(st, next) == IF st.error # NoError THEN st ELSE next

\* The statements with the trimming of 152-155 moved to the front.
RunStagesTrimFirst(formats, p, plat) ==
    LET s0 == InfoStage(StageState(formats), p)
        s1 == IF Truthy(p.info) THEN s0 ELSE FormatStage(s0, p)
        s2 == IF Truthy(p.info) THEN s0 ELSE Then(s1, QualityStage(s1, p))
        AfterRank(s3) ==
            LET s4 == Then(s3, TypeStage(s3, p))
                s5 == Then(s4, UrlStage(s4))
            IN  Then(s5, DownloadStage(s5, p))
    IN  IF Truthy(p.info) THEN {s0}
        ELSE {AfterRank(s3) :
                 s3 \in (IF s2.error # NoError THEN {s2} ELSE RankStage(s2, p, plat))}

\* extractvideo.ts 62-157 after the extraction: the states the statements,
\* run in their order, may end in.
RunStages(formats, p, plat) ==
    LET s1 == FormatStage(StageState(formats), p)
        s2 == Then(s1, QualityStage(s1, p))
        AfterRank(s3) ==
            LET s4 == Then(s3, TypeStage(s3, p))
                s5 == Then(s4, UrlStage(s4))
                s6 == Then(s5, DownloadStage(s5, p))
            IN  Then(s6, InfoStage(s6, p))
    IN  {AfterRank(s3) : s3 \in (IF s2.error # NoError THEN {s2} ELSE RankStage(s2, p, plat))}

-----------------------------------------------------------------------------
(* The inputs: the requests of the callers and the responses of the sites *)

MaxAdaptive == 2      \* adaptiveFormats entries of a player response
MaxVideoTags == 1     \* <video src> elements of a TikTok page

RequestUrls == {<<>>, u_youtube, u_youtubeNoId, u_tiktok, u_other}

\* A quality token that occurs in the labels of the url's platform.
TokenFor(url) == IF url = u_tiktok THEN q_watermark ELSE q_0P

\* The query strings of GET /extract: a parameter is absent or a string
\* (the type is left to the callers below).
Queries ==
    UNION {{[url |-> u, format |-> f, quality |-> q, download |-> d, info |-> i,
             type |-> Absent] :
               f \in {Absent, q_MP4},
               q \in {Absent, s_highest, TokenFor(u)},
               d \in {Absent, s_true},
               i \in {Absent, s_true}} : u \in RequestUrls}

\* The request objects of a caller of extractVideo that leaves out what it
\* does not want.
DirectRequests ==
    UNION {{[url |-> u, format |-> f, quality |-> q, download |-> d, info |-> i, type |-> ty] :
               f \in {Absent, q_webm},
               q \in {Absent, TokenFor(u)},
               d \in {Absent, True},
               i \in {Absent, True},
               ty \in {Absent, s_audio}} : u \in RequestUrls}

Descriptor(url, cipher, mime, label, quality, length) ==
    [url |-> url, signatureCipher |-> cipher, mimeType |-> mime, qualityLabel |-> label,
     quality |-> quality, contentLength |-> length]

fmt1080 == Descriptor(m_a, Absent, mime_mp4Codecs, l_1080p60, l_hd1080, len_52)
fmt2160 == Descriptor(m_b, Absent, mime_mp4, l_2160p, l_hd2160, Absent)
fmtTiny == Descriptor(Absent, cipher_c, mime_audioWebm, Absent, l_tiny, Absent)
fmt128k == Descriptor(m_d, Absent, mime_audioWebm, l_128kbps, l_tiny, Absent)
fmt360 == Descriptor(m_b, Absent, mime_mp4, l_360p, l_medium, len_52)
fmtNoUrl == Descriptor(Absent, cipher_noUrl, Absent, Absent, l_medium, Absent)
fmtBadUrl == Descriptor(Absent, cipher_badUrl, mime_mp4, l_2160p, l_hd2160, Absent)

AdaptivePool == {fmt1080, fmt2160, fmtTiny}
RegularLists == {<<>>, <<fmtBadUrl, fmt360, fmtNoUrl>>, <<fmt128k>>}

\* The outcomes of the fetch of the watch page: a failure (transport or
\* status), a page without a usable player response, or a player response.
YouTubeResponses ==
    {[ok |-> FALSE, streamingData |-> Missing], [ok |-> TRUE, streamingData |-> Missing]}
    \cup {[ok |-> TRUE, streamingData |-> [adaptiveFormats |-> a, formats |-> r]] :
             a \in SeqsUpTo(AdaptivePool, MaxAdaptive), r \in RegularLists}

\* The outcomes of the HEAD request: a failure, or the url it ended at.
HeadResponses ==
    {[ok |-> FALSE, url |-> <<>>]}
    \cup {[ok |-> TRUE, url |-> u] : u \in {t_final, t_finalQuery, t_finalShort}}

VideoData(videoUrl, playAddr, downloadAddr) ==
    [videoUrl |-> videoUrl, playAddr |-> playAddr, downloadAddr |-> downloadAddr,
     playUrl |-> Absent, others |-> TRUE]

\* The data scripts of a page: JSON-LD, __NEXT_DATA__ and SIGI_STATE.
PageScripts ==
    {[jsonLd |-> Missing, nextData |-> Missing, sigiState |-> Missing],
     [jsonLd |-> InvalidJson, nextData |-> [videoData |-> VideoData(Absent, t_2, Absent)],
      sigiState |-> Missing],
     [jsonLd |-> JsonNull, nextData |-> Missing, sigiState |-> Missing],
     [jsonLd |-> VideoData(t_2, Absent, Absent), nextData |-> Missing, sigiState |-> Missing],
     [jsonLd |-> VideoData(NotAString, Absent, Absent), nextData |-> Missing,
      sigiState |-> Missing],
     [jsonLd |-> EmptyObject, nextData |-> JsonNull,
      sigiState |-> [item |-> VideoData(Absent, Absent, t_1)]]}

PageMeta ==
    {[ogVideo |-> Absent, ogVideoUrl |-> Absent],
     [ogVideo |-> t_1, ogVideoUrl |-> t_2],
     [ogVideo |-> Absent, ogVideoUrl |-> t_2]}

VideoSrcLists == SeqsUpTo({t_1, t_relative}, MaxVideoTags)

NoPage ==
    [ok |-> FALSE, videoSrcs |-> <<>>, ogVideo |-> Absent, ogVideoUrl |-> Absent,
     jsonLd |-> Missing, nextData |-> Missing, sigiState |-> Missing]

\* The outcomes of the fetch of the TikTok page.
PageResponses ==
    {NoPage}
    \cup {[ok |-> TRUE, videoSrcs |-> v, ogVideo |-> m.ogVideo, ogVideoUrl |-> m.ogVideoUrl,
           jsonLd |-> s.jsonLd, nextData |-> s.nextData, sigiState |-> s.sigiState] :
             v \in VideoSrcLists, m \in PageMeta, s \in PageScripts}

\* The outcomes of the fetch of the embed page.
EmbedResponses ==
    {[ok |-> FALSE, videoSrcs |-> <<>>]} \cup {[ok |-> TRUE, videoSrcs |-> v] : v \in VideoSrcLists}

\* The outcomes of the fetch of the feed API.
ApiResponses ==
    {[ok |-> FALSE, json |-> InvalidJson]}
    \cup {[ok |-> TRUE, json |-> j] : j \in {InvalidJson, JsonNull, [aweme |-> Missing]}}
    \cup {[ok |-> TRUE, json |-> [aweme |-> [playAddr |-> pa, downloadAddr |-> da]]] :
             pa \in {Absent, t_1}, da \in {Absent, t_1, t_2}}

\* The responses served while two calls are in flight: for each endpoint a
\* failure and an answer or two.
ConcurrentPool ==
    {[ok |-> FALSE, streamingData |-> Missing],
     [ok |-> TRUE, streamingData |-> [adaptiveFormats |-> <<fmt1080, fmt2160>>,
                                      formats |-> <<fmt128k>>]],
     [ok |-> TRUE, url |-> t_final],
     NoPage,
     [NoPage EXCEPT !.ok = TRUE],
     [NoPage EXCEPT !.ok = TRUE, !.ogVideo = t_2],
     [ok |-> TRUE, videoSrcs |-> <<>>],
     [ok |-> TRUE, videoSrcs |-> <<t_1>>],
     [ok |-> FALSE, json |-> InvalidJson],
     [ok |-> TRUE, json |-> [aweme |-> [playAddr |-> t_1, downloadAddr |-> t_2]]]}

-----------------------------------------------------------------------------
(* One request, from the call to the response *)

Init ==
    /\ pc = "idle"
    /\ request = Missing
    /\ params = Missing
    /\ platform = Undefined
    /\ result = Missing
    /\ error = NoError
    /\ fetches = 0
    /\ ran = <<>>
    /\ playerResponse = Missing
    /\ cleanUrl = Undefined
    /\ candidates = <<>>
    /\ extracted = <<>>
    /\ log = <<>>
    /\ peer = Missing
    /\ cipherIn = Missing
    /\ cipherOut = NotRun
    /\ mimeIn = Missing
    /\ mimeOut = Missing

Fails(message, arg) ==
    /\ pc' = "failed"
    /\ error' = [message |-> message, arg |-> arg]

\* x?.toString() of a query parameter
Optional(v) == IF v = Absent THEN Undefined ELSE v

\* x === 'true'
IsTrue(v) == IF v = s_true THEN True ELSE False

\* mdu.ts 41-48: the request object the handler builds.
HandlerRequest(query) ==
    [url |-> query.url,
     format |-> Optional(query.format),
     quality |-> Optional(query.quality),
     download |-> IsTrue(query.download),
     info |-> IsTrue(query.info),
     type |-> Optional(query.type)]

\* mdu.ts 35-48: GET /extract up to its call of extractVideo.
HandleExtract ==
    /\ pc = "idle"
    /\ \E query \in Queries :
          IF ~Truthy(query.url)
          THEN Fails("URL is required", <<>>) /\ UNCHANGED request
          ELSE pc' = "called" /\ request' = HandlerRequest(query) /\ UNCHANGED error
    /\ UNCHANGED <<params, platform, result, fetches, ran, playerResponse, cleanUrl,
                   candidates, extracted, log, otherVars>>

\* Another caller of extractVideo, with a request object of its own.
CallExtractVideo ==
    /\ pc = "idle"
    /\ \E req \in DirectRequests : request' = req
    /\ pc' = "called"
    /\ UNCHANGED <<params, platform, result, error, fetches, ran, playerResponse, cleanUrl,
                   candidates, extracted, log, otherVars>>

\* extractvideo.ts 42-55
ApplyDefaults ==
    /\ pc = "called"
    /\ IF ~Truthy(request.url)
       THEN Fails("URL is required", <<>>) /\ UNCHANGED params
       ELSE pc' = "detect" /\ params' = ParamsOf(request) /\ UNCHANGED error
    /\ UNCHANGED <<request, platform, result, fetches, ran, playerResponse, cleanUrl,
                   candidates, extracted, log, otherVars>>

\* A switch without its default branch.
DispatchedWithoutDefault(plat) == IF plat = s_tiktok THEN "tiktokHead" ELSE "youtube"

\* Where the switch of extractVideo goes for a platform.
Dispatched(plat) ==
    IF plat = s_youtube THEN "youtube" ELSE IF plat = s_tiktok THEN "tiktokHead" ELSE "unsupported"

\* extractvideo.ts 60-63, 95 and 127-128
Dispatch ==
    /\ pc = "detect"
    /\ platform' = detectPlatform(params.url)
    /\ IF Dispatched(platform') = "unsupported"
       THEN Fails("Unsupported platform. Currently supports: ", getSupportedPlatforms)
       ELSE pc' = Dispatched(platform') /\ UNCHANGED error
    /\ UNCHANGED <<request, params, result, fetches, ran, playerResponse, cleanUrl,
                   candidates, extracted, log, otherVars>>

\* The formats the platform extractor hands to extractVideo.
Extracted(formats) ==
    /\ pc' = "stages"
    /\ result' = [formats |-> formats, downloadUrl |-> Absent]
    /\ extracted' = formats
    /\ UNCHANGED error

\* The responses a fetch may get.  Two calls in flight at once are served
\* from the few responses of ConcurrentPool.
Served(responses) ==
    IF peer = Missing THEN responses ELSE {r \in responses : r \in ConcurrentPool}

\* The log with the answer to one more fetch.
Answered(endpoint, response) == Append(log, [endpoint |-> endpoint, response |-> response])

\* extractvideo.ts 64 with mdu.ts 244-274 and 379-439: extractYouTubeVideo.
ExtractYouTube ==
    /\ pc = "youtube"
    /\ IF extractVideoId(params.url) = Undefined
       THEN /\ Fails("Invalid YouTube URL", <<>>)
            /\ UNCHANGED <<fetches, playerResponse, result, extracted, log>>
       ELSE \E response \in Served(YouTubeResponses) :
               /\ fetches' = fetches + 1
               /\ playerResponse' = response
               /\ log' = Answered("watch", response)
               /\ IF ~response.ok
                  THEN Fails("HTTP error! status: ", <<>>) /\ UNCHANGED <<result, extracted>>
                  ELSE \E formats \in extractFormatsFromPlayerResponse(response) :
                          IF formats = <<>>
                          THEN /\ Fails("No video formats found", <<>>)
                               /\ UNCHANGED <<result, extracted>>
                          ELSE IF UrlFilter(formats) = <<>>
                          THEN /\ Fails("No formats with valid URLs found", <<>>)
                               /\ UNCHANGED <<result, extracted>>
                          ELSE Extracted(UrlFilter(formats))
    /\ UNCHANGED <<request, params, platform, ran, cleanUrl, candidates, otherVars>>

\* mdu.ts 514 with 537-572: sanitizeTikTokUrl.
SanitizeTikTokUrl ==
    /\ pc = "tiktokHead"
    /\ fetches' = fetches + 1
    /\ \E response \in Served(HeadResponses) :
          /\ log' = Answered("head", response)
          /\ IF ~response.ok
             THEN Fails("Invalid TikTok URL", <<>>) /\ UNCHANGED cleanUrl
             ELSE pc' = "tiktokPage" /\ cleanUrl' = SanitizedUrl(response.url) /\ UNCHANGED error
    /\ UNCHANGED <<request, params, platform, result, ran, playerResponse, candidates,
                   extracted, otherVars>>

\* mdu.ts 618-639 and 515-527: fetchTikTokInfo returns and extractTikTokVideo
\* checks what it got.
TikTokReturns(collected) ==
    /\ candidates' = collected
    /\ \E formats \in TikTokInfoFormats(collected) :
          IF formats = <<>>
          THEN Fails("No video formats found", <<>>) /\ UNCHANGED <<result, extracted>>
          ELSE Extracted(formats)

\* A chain that tries every strategy whatever the earlier ones found.
NeedsFallbackAlways(formats) == TRUE

\* mdu.ts 604 and 613: formats.length === 0
NeedsFallback(formats) == formats = <<>>

\* The chain goes on to a fallback fetch with the formats collected so far.
FallsBackTo(strategy, collected) ==
    /\ pc' = strategy
    /\ candidates' = collected
    /\ UNCHANGED <<result, extracted, error>>

\* A page fetch whose failure is swallowed like that of the embed fetch.
FetchTikTokPageSwallowing ==
    /\ pc = "tiktokPage"
    /\ fetches' = fetches + 1
    /\ \E page \in Served(PageResponses) :
          LET data == extractVideoData(page)
              found == extractFormats(page, data.videoData)
          IN  /\ log' = Answered("page", page)
              /\ IF data.threw \/ found.threw
                 THEN /\ Fails("Failed to fetch TikTok info: TypeError", <<>>)
                      /\ UNCHANGED <<candidates, result, extracted>>
                 ELSE IF NeedsFallback(found.formats) /\ getEmbedUrl(cleanUrl) # Undefined
                 THEN FallsBackTo("tiktokEmbed", found.formats)
                 ELSE TikTokReturns(found.formats)
    /\ UNCHANGED <<request, params, platform, ran, playerResponse, cleanUrl, otherVars>>

\* mdu.ts 586-616: the page fetch and the strategies that read the page.
FetchTikTokPage ==
    /\ pc = "tiktokPage"
    /\ fetches' = fetches + 1
    /\ \E page \in Served(PageResponses) :
          LET data == extractVideoData(page)
              found == extractFormats(page, data.videoData)
          IN  /\ log' = Answered("page", page)
              /\ IF ~page.ok
                 THEN /\ Fails("HTTP error! status: ", <<>>)
                      /\ UNCHANGED <<candidates, result, extracted>>
                 ELSE IF data.threw \/ found.threw
                 THEN /\ Fails("Failed to fetch TikTok info: TypeError", <<>>)
                      /\ UNCHANGED <<candidates, result, extracted>>
                 ELSE IF NeedsFallback(found.formats) /\ getEmbedUrl(cleanUrl) # Undefined
                 THEN FallsBackTo("tiktokEmbed", found.formats)
                 \* 647-648: a url without a video id has no embed url, and
                 \* extractFromApi returns [] for it without a fetch
                 ELSE TikTokReturns(found.formats)
    /\ UNCHANGED <<request, params, platform, ran, playerResponse, cleanUrl, otherVars>>

\* mdu.ts 604-610 with 806-840: the embed strategy.
FetchTikTokEmbed ==
    /\ pc = "tiktokEmbed"
    /\ fetches' = fetches + 1
    /\ \E response \in Served(EmbedResponses) :
          LET collected == candidates \o extractFromEmbed(response)
          IN  /\ log' = Answered("embed", response)
              /\ IF NeedsFallback(collected)
                 THEN FallsBackTo("tiktokApi", collected)
                 ELSE TikTokReturns(collected)
    /\ UNCHANGED <<request, params, platform, ran, playerResponse, cleanUrl, otherVars>>

\* mdu.ts 613-616 with 645-694: the API strategy.
FetchTikTokApi ==
    /\ pc = "tiktokApi"
    /\ fetches' = fetches + 1
    /\ \E response \in Served(ApiResponses) :
          /\ log' = Answered("api", response)
          /\ TikTokReturns(candidates \o extractFromApi(response))
    /\ UNCHANGED <<request, params, platform, ran, playerResponse, cleanUrl, otherVars>>

\* extractvideo.ts 65-157: the filters, the ranking, the download link and
\* the trimming, up to the return or the throw.
FilterAndReturn ==
    /\ pc = "stages"
    /\ \E st \in RunStages(result.formats, params, platform) :
          /\ result' = [formats |-> st.formats, downloadUrl |-> st.downloadUrl]
          /\ ran' = st.ran
          /\ error' = st.error
          /\ pc' = IF st.error = NoError THEN "done" ELSE "failed"
    /\ UNCHANGED <<request, params, platform, fetches, playerResponse, cleanUrl, candidates,
                   extracted, log, otherVars>>

Next ==
    \/ HandleExtract
    \/ CallExtractVideo
    \/ ApplyDefaults
    \/ Dispatch
    \/ ExtractYouTube
    \/ SanitizeTikTokUrl
    \/ FetchTikTokPage
    \/ FetchTikTokEmbed
    \/ FetchTikTokApi
    \/ FilterAndReturn

Spec == Init /\ [][Next]_vars

-----------------------------------------------------------------------------
(* The specification of decodeCipher alone: Init draws a cipher, built the  *)
(* way a query string is serialized from the sub-fields url, sp and s, and  *)
(* one action applies decodeCipher to it.                                   *)

MaxUrlLen == 3
MaxSigLen == 2

CipherUrlChars == {"h", "%", "2", "5"}
CipherSigChars == {"s", "="}
s_signature == <<"s", "i", "g", "n", "a", "t", "u", "r", "e">>
CipherForms == {"url,sp,s", "url,sp", "url,s", "url", "sp,s"}

CipherField(name, value) == name \o <<"=">> \o FormEncode(value)

CipherText(form, U, P, S) ==
    CASE form = "url,sp,s" ->
            CipherField(s_url, U) \o <<"&">> \o CipherField(s_sp, P) \o <<"&">> \o CipherField(s_s, S)
      [] form = "url,sp" -> CipherField(s_url, U) \o <<"&">> \o CipherField(s_sp, P)
      [] form = "url,s" -> CipherField(s_url, U) \o <<"&">> \o CipherField(s_s, S)
      [] form = "url" -> CipherField(s_url, U)
      [] form = "sp,s" -> CipherField(s_sp, P) \o <<"&">> \o CipherField(s_s, S)

CipherInputs ==
    {[form |-> f, U |-> U, P |-> P, S |-> S, signatureCipher |-> CipherText(f, U, P, S)] :
        f \in CipherForms,
        U \in SeqsUpTo(CipherUrlChars, MaxUrlLen) \ {<<>>},
        P \in {s_signature, <<"n">>},
        S \in SeqsUpTo(CipherSigChars, MaxSigLen) \ {<<>>}}

InitCipher ==
    /\ pc = "idle"
    /\ request = Missing
    /\ params = Missing
    /\ platform = Undefined
    /\ result = Missing
    /\ error = NoError
    /\ fetches = 0
    /\ ran = <<>>
    /\ playerResponse = Missing
    /\ cleanUrl = Undefined
    /\ candidates = <<>>
    /\ extracted = <<>>
    /\ log = <<>>
    /\ peer = Missing
    /\ cipherIn \in CipherInputs
    /\ cipherOut = NotRun
    /\ mimeIn = Missing
    /\ mimeOut = Missing

DecodeCipherCall ==
    /\ cipherOut = NotRun
    /\ cipherOut' = decodeCipher(cipherIn.signatureCipher)
    /\ UNCHANGED <<cipherIn, requestVars, peer, mimeVars>>

NextCipher == DecodeCipherCall

SpecCipher == InitCipher /\ [][NextCipher]_vars

-----------------------------------------------------------------------------
(* The specification of the stages of extractVideo for TikTok alone: Init   *)
(* draws the request and the records extractTikTokVideo returned, sizes     *)
(* included, and one action runs the statements of extractvideo.ts 97-157.  *)

MaxRanked == 3

RankedPool ==
    {[TikTokFormat(q, t_1) EXCEPT !.size = n] :
        q \in {s_originalNoWatermark, s_originalWatermark}, n \in {0, 500000, 900000}}

RankingRequests ==
    {r \in DirectRequests : r.url = u_tiktok /\ r.quality = Absent /\ r.type = Absent}
    \cup {HandlerRequest(query) : query \in {q \in Queries :
              /\ q.url = u_tiktok /\ q.quality = s_highest
              /\ q.format = q_MP4 /\ q.type = Absent}}

InitRanking ==
    /\ pc = "stages"
    /\ request \in RankingRequests
    /\ params = ParamsOf(request)
    /\ platform = s_tiktok
    /\ extracted \in SeqsUpTo(RankedPool, MaxRanked) \ {<<>>}
    /\ result = [formats |-> extracted, downloadUrl |-> Absent]
    /\ error = NoError
    /\ fetches = 0
    /\ ran = <<>>
    /\ playerResponse = Missing
    /\ cleanUrl = Undefined
    /\ candidates = extracted
    /\ log = <<>>
    /\ peer = Missing
    /\ cipherIn = Missing
    /\ cipherOut = NotRun
    /\ mimeIn = Missing
    /\ mimeOut = Missing

NextRanking == FilterAndReturn

SpecRanking == InitRanking /\ [][NextRanking]_vars

-----------------------------------------------------------------------------
(* The specification of the stages of extractVideo for both platforms: Init *)
(* draws the request and the records the extractor returned, with quality   *)
(* labels in either letter case, and one action runs the statements of      *)
(* extractvideo.ts 65-157.                                                  *)

l_1080p == <<"1", "0", "8", "0", "p">>
l_1080P == <<"1", "0", "8", "0", "P">>
l_720p == <<"7", "2", "0", "p">>
l_OriginalNoWatermark ==
    <<"O", "r", "i", "g", "i", "n", "a", "l", " ", "(", "N", "o", " ", "W", "a", "t", "e",
      "r", "m", "a", "r", "k", ")">>

\* Records of extractYouTubeVideo and of extractTikTokVideo.
LabelledPool(plat) ==
    IF plat = s_youtube
    THEN {[quality |-> l, format |-> s_mp4, mimeType |-> s_videoMp4, type |-> s_video,
           size |-> 0, url |-> m_a] : l \in {l_1080p, l_1080P, l_720p, l_128kbps}}
    ELSE {[TikTokFormat(s_originalNoWatermark, t_1) EXCEPT !.size = 500000],
          [TikTokFormat(l_OriginalNoWatermark, t_1) EXCEPT !.size = 500000],
          [TikTokFormat(s_originalWatermark, t_1) EXCEPT !.size = 900000],
          TikTokFormat(s_originalWatermark, t_1)}

UrlOf(plat) == IF plat = s_youtube THEN u_youtube ELSE u_tiktok

\* Requests with a quality token, and requests for the highest quality.
StageRequests(plat) ==
    {r \in DirectRequests :
        r.url = UrlOf(plat) /\ r.format = Absent /\ r.info = Absent /\ r.type = Absent}
    \cup {HandlerRequest(query) : query \in {q \in Queries :
              /\ q.url = UrlOf(plat) /\ q.quality = s_highest
              /\ q.format = q_MP4 /\ q.info = Absent}}

InitStages ==
    /\ pc = "stages"
    /\ platform \in {s_youtube, s_tiktok}
    /\ request \in StageRequests(platform)
    /\ params = ParamsOf(request)
    /\ extracted \in SeqsUpTo(LabelledPool(platform), MaxRanked) \ {<<>>}
    /\ result = [formats |-> extracted, downloadUrl |-> Absent]
    /\ error = NoError
    /\ fetches = 0
    /\ ran = <<>>
    /\ playerResponse = Missing
    /\ cleanUrl = Undefined
    /\ candidates = extracted
    /\ log = <<>>
    /\ peer = Missing
    /\ cipherIn = Missing
    /\ cipherOut = NotRun
    /\ mimeIn = Missing
    /\ mimeOut = Missing

NextStages == FilterAndReturn

SpecStages == InitStages /\ [][NextStages]_vars

-----------------------------------------------------------------------------
(* The specification of the MIME handling of the normalizer alone: Init     *)
(* draws the mimeType property of a descriptor, written from a type, a      *)
(* subtype and parameters, and one action normalizes the descriptor.        *)

NoPart == <<"#none">>

MimeTypes == {s_audio, <<"A", "u", "d", "i", "o">>, s_video, <<"a", "u", "d", "i", "o", "x">>,
              <<"t", "e", "x", "t">>, <<>>}
MimeSubtypes == {NoPart, <<>>, q_webm, s_mp4}
MimeParameters == {<<>>, <<";">>, <<";", " ", "c", "o", "d", "e", "c", "s", "=", "x">>,
                   <<";", "c", "o", "d", "e", "c", "s", "=", "a", "/", "b">>}

MimeText(type, subtype, parameters) ==
    type \o (IF subtype = NoPart THEN <<>> ELSE <<"/">> \o subtype) \o parameters

MimeInputs ==
    {[type |-> ty, subtype |-> su, mimeType |-> MimeText(ty, su, pa)] :
        ty \in MimeTypes, su \in MimeSubtypes, pa \in MimeParameters}
    \cup {[type |-> NoPart, subtype |-> NoPart, mimeType |-> v] : v \in {Absent, Undefined}}

InitMime ==
    /\ pc = "idle"
    /\ request = Missing
    /\ params = Missing
    /\ platform = Undefined
    /\ result = Missing
    /\ error = NoError
    /\ fetches = 0
    /\ ran = <<>>
    /\ playerResponse = Missing
    /\ cleanUrl = Undefined
    /\ candidates = <<>>
    /\ extracted = <<>>
    /\ log = <<>>
    /\ peer = Missing
    /\ cipherIn = Missing
    /\ cipherOut = NotRun
    /\ mimeIn \in MimeInputs
    /\ mimeOut = Missing

\* mdu.ts 307-326: the body of the forEach for a descriptor with a url and
\* this mimeType.
NormalizeMime ==
    /\ mimeOut = Missing
    /\ mimeOut' = NormalizeDescriptor(Descriptor(m_a, Absent, mimeIn.mimeType, l_360p,
                                                 l_medium, Absent))[1]
    /\ UNCHANGED <<mimeIn, requestVars, peer, cipherVars>>

NextMime == NormalizeMime

SpecMime == InitMime /\ [][NextMime]_vars

-----------------------------------------------------------------------------
(* Two calls of extractVideo in flight at once.  The variables hold the     *)
(* locals of the call that is running, peer those of the call suspended at  *)
(* an await; the event loop resumes the suspended call when the running one *)
(* reaches an await or its end.                                             *)

\* The locals of the running call: the arguments, params, result and what
\* the extractor it awaits holds.
Locals ==
    [pc |-> pc, request |-> request, params |-> params, platform |-> platform,
     result |-> result, error |-> error, fetches |-> fetches, ran |-> ran,
     playerResponse |-> playerResponse, cleanUrl |-> cleanUrl, candidates |-> candidates,
     extracted |-> extracted, log |-> log]

\* The locals of a call that has not started.
NotStarted(req) ==
    [pc |-> "called", request |-> req, params |-> Missing, platform |-> Undefined,
     result |-> Missing, error |-> NoError, fetches |-> 0, ran |-> <<>>,
     playerResponse |-> Missing, cleanUrl |-> Undefined, candidates |-> <<>>,
     extracted |-> <<>>, log |-> <<>>]

\* A formats array that belongs to the module, not to the call.
ResumedWithSharedFormats(saved) == [saved EXCEPT !.candidates = candidates]

\* What a call finds in its locals when it resumes: what it left there
\* (mdu.ts 601: 'let formats' is a local of fetchTikTokInfo).
Resumed(saved) == saved

\* The points a call can be suspended at: before its start, at the await of
\* a fetch or of the extractor's promise, and after its end.
AtAwait == pc # "detect"

\* The running call is suspended and the other one resumed.
Switch ==
    /\ peer # Missing
    /\ AtAwait
    /\ peer' = Locals
    /\ LET to == Resumed(peer)
       IN  /\ pc' = to.pc
           /\ request' = to.request
           /\ params' = to.params
           /\ platform' = to.platform
           /\ result' = to.result
           /\ error' = to.error
           /\ fetches' = to.fetches
           /\ ran' = to.ran
           /\ playerResponse' = to.playerResponse
           /\ cleanUrl' = to.cleanUrl
           /\ candidates' = to.candidates
           /\ extracted' = to.extracted
           /\ log' = to.log
    /\ UNCHANGED <<cipherVars, mimeVars>>

\* The requests of the two calls.
ConcurrentRequests ==
    {r \in DirectRequests :
        /\ r.url \in {u_youtube, u_tiktok}
        /\ r.format = Absent /\ r.info = Absent /\ r.type = Absent /\ r.download = True}

InitConcurrent ==
    /\ pc = "called"
    /\ request \in ConcurrentRequests
    /\ params = Missing
    /\ platform = Undefined
    /\ result = Missing
    /\ error = NoError
    /\ fetches = 0
    /\ ran = <<>>
    /\ playerResponse = Missing
    /\ cleanUrl = Undefined
    /\ candidates = <<>>
    /\ extracted = <<>>
    /\ log = <<>>
    /\ peer \in {NotStarted(req) : req \in ConcurrentRequests}
    /\ cipherIn = Missing
    /\ cipherOut = NotRun
    /\ mimeIn = Missing
    /\ mimeOut = Missing

NextConcurrent ==
    \/ ApplyDefaults
    \/ Dispatch
    \/ ExtractYouTube
    \/ SanitizeTikTokUrl
    \/ FetchTikTokPage
    \/ FetchTikTokEmbed
    \/ FetchTikTokApi
    \/ FilterAndReturn
    \/ Switch

SpecConcurrent == InitConcurrent /\ [][NextConcurrent]_vars

-----------------------------------------------------------------------------
(* GET /formats: the handler lists the formats of a url, of one media type  *)
(* when the query names a type.  Init draws the query; the listing of each  *)
(* platform module is one action, the handler's own filter another.         *)

\* The query strings of GET /formats (mdu.ts 135-138: url is a string, type
\* is absent, 'audio' or 'video').
FormatQueries == {[url |-> u, type |-> ty] : u \in RequestUrls, ty \in {Absent, s_audio, s_video}}

InitFormats ==
    /\ pc = "formats"
    /\ request \in FormatQueries
    /\ params = Missing
    /\ platform = Undefined
    /\ result = Missing
    /\ error = NoError
    /\ fetches = 0
    /\ ran = <<>>
    /\ playerResponse = Missing
    /\ cleanUrl = Undefined
    /\ candidates = <<>>
    /\ extracted = <<>>
    /\ log = <<>>
    /\ peer = Missing
    /\ cipherIn = Missing
    /\ cipherOut = NotRun
    /\ mimeIn = Missing
    /\ mimeOut = Missing

\* mdu.ts 90-109: the handler up to its call of a platform module.
HandleFormats ==
    /\ pc = "formats"
    /\ IF ~Truthy(request.url)
       THEN Fails("URL is required", <<>>) /\ UNCHANGED platform
       ELSE /\ platform' = detectPlatform(request.url)
            /\ IF platform' = s_tiktok THEN pc' = "listTikTok" /\ UNCHANGED error
               ELSE IF platform' = s_youtube THEN pc' = "listYouTube" /\ UNCHANGED error
               ELSE Fails("Unsupported platform", <<>>)
    /\ UNCHANGED <<request, params, result, fetches, ran, playerResponse, cleanUrl,
                   candidates, extracted, log, otherVars>>

\* mdu.ts 105-107 with 462 and 475: getFormatsByType filters the formats of
\* the video by the type, listAvailableFormats returns them all.
ListedOfType(formats, type) == IF Truthy(type) THEN TypeFilter(formats, type) ELSE formats

\* mdu.ts 458-482 with 379-439: getFormatsByType and listAvailableFormats of
\* the YouTube module.
ListYouTubeFormats ==
    /\ pc = "listYouTube"
    /\ IF extractVideoId(request.url) = Undefined
       THEN /\ Fails("Invalid YouTube URL", <<>>)
            /\ UNCHANGED <<fetches, playerResponse, extracted, log>>
       ELSE \E response \in YouTubeResponses :
               /\ fetches' = fetches + 1
               /\ playerResponse' = response
               /\ log' = Answered("watch", response)
               /\ IF ~response.ok
                  THEN Fails("HTTP error! status: ", <<>>) /\ UNCHANGED extracted
                  ELSE \E formats \in extractFormatsFromPlayerResponse(response) :
                          IF formats = <<>>
                          THEN Fails("No video formats found", <<>>) /\ UNCHANGED extracted
                          ELSE /\ pc' = "respond"
                               /\ extracted' = ListedOfType(formats, request.type)
                               /\ UNCHANGED error
    /\ UNCHANGED <<request, params, platform, result, ran, cleanUrl, candidates, otherVars>>

\* mdu.ts 574-643: fetchTikTokInfo on the answers its fetches get: the
\* fetches it issues, the error it throws ("" when none), the formats its
\* strategies collect and the format lists it may return.
fetchTikTokInfo(url, page, embed, api) ==
    LET data == extractVideoData(page)
        found == extractFormats(page, data.videoData)
        threw == ~page.ok \/ data.threw \/ found.threw
        needsEmbed == ~threw /\ NeedsFallback(found.formats) /\ getEmbedUrl(url) # Undefined
        afterEmbed == IF needsEmbed THEN found.formats \o extractFromEmbed(embed)
                      ELSE found.formats
        needsApi == needsEmbed /\ NeedsFallback(afterEmbed)
        afterApi == IF needsApi THEN afterEmbed \o extractFromApi(api) ELSE afterEmbed
    IN  [fetched |-> <<[endpoint |-> "page", response |-> page]>>
                     \o (IF needsEmbed THEN <<[endpoint |-> "embed", response |-> embed]>>
                         ELSE <<>>)
                     \o (IF needsApi THEN <<[endpoint |-> "api", response |-> api]>>
                         ELSE <<>>),
         message |-> IF ~page.ok THEN "HTTP error! status: "
                     ELSE IF threw THEN "Failed to fetch TikTok info: TypeError"
                     ELSE "",
         collected |-> IF threw THEN <<>> ELSE afterApi,
         formats |-> IF threw THEN {} ELSE TikTokInfoFormats(afterApi)]

\* mdu.ts 881-891: listAvailableFormats of the TikTok module, called with
\* the url of the query and nothing else (mdu.ts 103).
ListTikTokFormats ==
    /\ pc = "listTikTok"
    /\ \E page \in PageResponses, embed \in EmbedResponses, api \in ApiResponses :
          LET info == fetchTikTokInfo(request.url, page, embed, api)
          IN  /\ log' = log \o info.fetched
              /\ fetches' = fetches + Len(info.fetched)
              /\ candidates' = info.collected
              /\ IF info.message # ""
                 THEN Fails(info.message, <<>>) /\ UNCHANGED extracted
                 ELSE \E formats \in info.formats :
                         pc' = "respond" /\ extracted' = formats /\ UNCHANGED error
    /\ UNCHANGED <<request, params, platform, result, ran, playerResponse, cleanUrl,
                   otherVars>>

\* mdu.ts 112-130: the handler drops the records without a url (the map of
\* 114-121 copies the six fields of a record), and answers with the rest or
\* throws.
RespondFormats ==
    /\ pc = "respond"
    /\ LET validFormats == UrlFilter(extracted)
       IN  IF validFormats = <<>>
           THEN Fails("No valid formats found with URLs", <<>>) /\ UNCHANGED result
           ELSE /\ pc' = "done"
                /\ result' = [formats |-> validFormats, downloadUrl |-> Absent]
                /\ UNCHANGED error
    /\ UNCHANGED <<request, params, platform, fetches, ran, playerResponse, cleanUrl,
                   candidates, extracted, log, otherVars>>

NextFormats ==
    \/ HandleFormats
    \/ ListYouTubeFormats
    \/ ListTikTokFormats
    \/ RespondFormats

SpecFormats == InitFormats /\ [][NextFormats]_vars

-----------------------------------------------------------------------------
(* The claims about extractVideo *)

Returned == pc = "done"
Failed == pc = "failed"
Finished == Returned \/ Failed

\* The statements of extractvideo.ts 65-157 have run (or thrown) on this
\* request.
StagesRan == Finished /\ ran # <<>>

Last(s) == s[Len(s)]

\* C1: with info set, the returned formats are empty and downloadUrl is
\* absent, and the trimming is the last statement to run: the stages that
\* ran before it, and whether and how the call failed, are those of the same
\* request with info unset; and a call whose extraction found no formats
\* fails.
C1_InfoTrimsAfterAllStages ==
    (Finished /\ params # Missing /\ Truthy(params.info)) =>
        /\ Returned => /\ result.formats = <<>>
                       /\ result.downloadUrl = Absent
                       /\ Last(ran) = "info"
        /\ extracted = <<>> => Failed
        /\ StagesRan =>
              \E st \in RunStages(extracted, [params EXCEPT !.info = False], platform) :
                  /\ Failed <=> st.error # NoError
                  /\ error = st.error
                  /\ ran = IF Failed THEN st.ran ELSE Append(st.ran, "info")

\* An info request answered after formats were found, filtered and the
\* download link chosen.
C1_InfoRequestReturned ==
    /\ Returned
    /\ Truthy(params.info)
    /\ Truthy(params.download)
    /\ Len(extracted) >= 2
    /\ ran = <<"format", "rank", "type", "url", "download", "info">>

ValidRecord(f) == Truthy(f.url) /\ Len(f.url) > 0 /\ f.type \in {s_audio, s_video}

\* C2: a response with info unset carries at least one format record; every
\* record an extractor or extractVideo returns has a non-empty url and the
\* type audio or video; no call returns after an extraction without records.
C2_ReturnedRecordsAreValid ==
    /\ pc \in {"stages", "done"} =>
          /\ extracted # <<>>
          /\ \A i \in 1..Len(extracted) : ValidRecord(extracted[i])
    /\ Returned =>
          /\ \A i \in 1..Len(result.formats) : ValidRecord(result.formats[i])
          /\ ~Truthy(params.info) => Len(result.formats) >= 1

\* A response whose type filter dropped some of the extracted records and
\* kept others.
C2_SomeRecordsReturned ==
    /\ Returned
    /\ ~Truthy(params.info)
    /\ Len(result.formats) >= 1
    /\ Len(result.formats) < Len(extracted)
    /\ params.type = s_audio

OptionalFields == {"format", "quality", "download", "info", "type"}

Defaults ==
    [format |-> s_mp4, quality |-> s_highest, download |-> False, info |-> False,
     type |-> s_video]

Supplied(req, f) == req[f] \notin {Absent, Undefined}

\* C3: before dispatch every optional field the caller did not supply (left
\* out, or passed as undefined by the /extract handler) has its default, and
\* every supplied field keeps the supplied value.
C3_DefaultsApplied ==
    params # Missing =>
        \A f \in OptionalFields :
            params[f] = IF Supplied(request, f) THEN request[f] ELSE Defaults[f]

StageOrder == <<"format", "quality", "rank", "type", "url", "download", "info">>

StagePosition(stage) == CHOOSE i \in 1..Len(StageOrder) : StageOrder[i] = stage

StageMessage(stage) ==
    CASE stage = "format" -> "No formats matching '' found"
      [] stage = "quality" -> "No quality matching '' found"
      [] stage = "type" -> "No  formats found"
      [] stage = "url" -> "No valid formats found with URLs"
      [] OTHER -> "none"

\* C4: the stages run in the order container filter, quality filter,
\* ranking, type filter, url filter; a call that fails in a stage fails in
\* the last stage that ran, with that stage's message and an emptied
\* sequence; a request whose container filter leaves nothing fails there,
\* naming the container, whatever the later stages would have left.
C4_StagesRunInOrderFirstEmptyNamed ==
    StagesRan =>
        /\ \A i, j \in 1..Len(ran) : i < j => StagePosition(ran[i]) < StagePosition(ran[j])
        /\ Failed => /\ result.formats = <<>>
                     /\ error.message = StageMessage(Last(ran))
        /\ (Truthy(params.format) /\ FormatFilter(extracted, params.format) = <<>>) =>
              /\ Failed
              /\ ran = <<"format">>
              /\ error = [message |-> "No formats matching '' found", arg |-> params.format]

\* A request that both the container filter and the type filter would empty.
C4_EmptiedByContainerAndType ==
    /\ Failed
    /\ ran = <<"format">>
    /\ extracted # <<>>
    /\ Truthy(params.type)
    /\ FormatFilter(extracted, params.format) = <<>>
    /\ TypeFilter(extracted, params.type) = <<>>

PlatformCompare(a, b) ==
    IF platform = s_youtube THEN YouTubeRankCompare(a, b) ELSE TikTokRankCompare(a, b)

\* C5: with download set and info unset, downloadUrl is the url of the first
\* returned record, and no returned record ranks above that record under the
\* platform's ranking rule, whatever quality was requested.
C5_DownloadUrlIsHighestRanked ==
    (Returned /\ Truthy(params.download) /\ ~Truthy(params.info)) =>
        /\ result.downloadUrl = result.formats[1].url
        /\ \A i \in 1..Len(result.formats) :
              PlatformCompare(result.formats[1], result.formats[i]) <= 0

\* parseInt of the label: its leading integer, 0 when it has none.
LeadingInteger(label) ==
    IF LeadingDigits(label) = <<>> THEN 0 ELSE DigitsValue(LeadingDigits(label))

\* The records the ranking of a 'highest' request is handed, in their order.
Considered ==
    LET kept == IF Truthy(params.format) THEN FormatFilter(extracted, params.format)
                ELSE extracted
    IN  IF Truthy(params.type) THEN TypeFilter(kept, params.type) ELSE kept

HighestOnYouTube ==
    Returned /\ platform = s_youtube /\ params.quality = s_highest /\ ~Truthy(params.info)

\* formats is in descending order of Number, records of equal Number in the
\* order they have in source.
StablyDescending(formats, source, Number(_)) ==
    /\ \A i, j \in 1..Len(formats) :
          i < j => Number(formats[i].quality) >= Number(formats[j].quality)
    /\ \A k \in 1..Len(source) :
          LET Same(f) == Number(f.quality) = Number(source[k].quality)
          IN  SelectSeq(formats, Same) = SelectSeq(source, Same)

\* C6 as amended: for a YouTube url with quality 'highest' the returned
\* formats are in descending order of resolution, the resolution of a record
\* being the number written by the first run of digits of its quality label
\* that a 'p' follows directly, and 0 for a label without one; records of
\* equal resolution keep their relative order.
C6_DescendingByDigitsBeforeP ==
    HighestOnYouTube => StablyDescending(result.formats, Considered, getQualityNumber)

\* C6 as stated: the same with the leading integer of the label as the
\* resolution.
C6_DescendingByLeadingInteger ==
    HighestOnYouTube => StablyDescending(result.formats, Considered, LeadingInteger)

\* A 'highest' response whose ranking moved a record up and kept a tie.
C6_RankingReordered ==
    /\ HighestOnYouTube
    /\ Len(result.formats) >= 3
    /\ result.formats # Considered
    /\ \E i \in 1..(Len(result.formats) - 1) :
          getQualityNumber(result.formats[i].quality)
              = getQualityNumber(result.formats[i + 1].quality)

NoWatermark(f) == Includes(f.quality, s_noWatermark)

\* size || 0
SizeOf(f) == f.size

\* C7: for a TikTok url with quality 'highest' every returned record marked
\* no-watermark precedes every record that is not, whatever the sizes, and
\* records that agree on the marker are in descending order of size.
C7_NoWatermarkFirstThenSize ==
    (Returned /\ platform = s_tiktok /\ params.quality = s_highest) =>
        \A i, j \in 1..Len(result.formats) :
            i < j => LET a == result.formats[i]
                         b == result.formats[j]
                     IN  /\ ~(~NoWatermark(a) /\ NoWatermark(b))
                         /\ NoWatermark(a) = NoWatermark(b) => SizeOf(a) >= SizeOf(b)

\* The watermarked record of size 900000 was extracted first, the
\* no-watermark record of size 500000 second, and the response puts the
\* no-watermark record first.
C7_SmallerNoWatermarkFirst ==
    /\ Returned
    /\ platform = s_tiktok
    /\ params.quality = s_highest
    /\ Len(result.formats) = 2
    /\ ~NoWatermark(extracted[1]) /\ extracted[1].size = 900000
    /\ NoWatermark(extracted[2]) /\ extracted[2].size = 500000
    /\ result.formats = <<extracted[2], extracted[1]>>

s_supported == <<"Y", "o", "u", "t", "u", "b", "e", ",", " ", "T", "i", "k", "t", "o", "k">>

\* C8: a request whose url the detector classifies as unknown fails with the
\* message that lists the supported platforms, and no fetch has been issued
\* for it; no fetch of any request is issued before the platform is detected.
C8_UnknownPlatformFailsBeforeAnyFetch ==
    /\ platform = Undefined => fetches = 0
    /\ platform = s_unknown =>
          /\ Failed
          /\ error = [message |-> "Unsupported platform. Currently supports: ",
                      arg |-> s_supported]
          /\ fetches = 0

\* The request for https://example.com/x has failed.
C8_UnsupportedUrlRejected ==
    /\ Failed
    /\ params # Missing
    /\ params.url = u_other
    /\ platform = s_unknown

\* The records the strategies of the platform pushed, before any sorting.
Pushed ==
    IF platform = s_youtube THEN PushedFormats(playerResponse.streamingData) ELSE candidates

FirstWithUrl(formats, url) == formats[Min({i \in 1..Len(formats) : formats[i].url = url})]

\* C9: on every platform the records an extraction produces have pairwise
\* different urls, and the record of a url is the first one pushed with it.
C9_OneRecordPerUrl ==
    (pc \in {"stages", "done"}) =>
        /\ \A i, j \in 1..Len(extracted) : i # j => extracted[i].url # extracted[j].url
        /\ \A i \in 1..Len(extracted) : extracted[i] = FirstWithUrl(Pushed, extracted[i].url)

-----------------------------------------------------------------------------
(* C10: decodeCipher on 'url=U&sp=P&s=S' returns U & P = urlencode(S), and  *)
(* on a cipher with url=U that lacks s or lacks sp it returns U unmodified, *)
(* for every base url U, percent-encoded characters in it included.         *)
C10_DecodeCipherReturnsBaseUrl ==
    cipherOut # NotRun =>
        /\ cipherIn.form = "url,sp,s" =>
              cipherOut = cipherIn.U \o <<"&">> \o cipherIn.P \o <<"=">>
                          \o EncodeURIComponent(cipherIn.S)
        /\ cipherIn.form \in {"url,sp", "url,s", "url"} => cipherOut = cipherIn.U

\* The same statement for the base urls that hold no '%': there the second
\* decoding of the base url changes nothing.
C10_HoldsWithoutPercent ==
    "%" \notin Range(cipherIn.U) => C10_DecodeCipherReturnsBaseUrl

\* decodeCipher has returned for a cipher with url, sp and s whose base
\* url holds no '%' and whose signature needs encoding.
C10_SignatureAppended ==
    /\ cipherOut # NotRun
    /\ cipherIn.form = "url,sp,s"
    /\ "=" \in Range(cipherIn.S)
    /\ "%" \notin Range(cipherIn.U)

-----------------------------------------------------------------------------
(* The claims about the TikTok chain *)

\* The endpoints fetched so far, in the order of their answers.
Endpoints == [i \in 1..Len(log) |-> log[i].endpoint]

Fetched(endpoint) == \E i \in 1..Len(log) : log[i].endpoint = endpoint

\* The response the fetch of an endpoint got.
ResponseOf(endpoint) == log[CHOOSE i \in 1..Len(log) : log[i].endpoint = endpoint].response

\* The fetch of a strategy has started: it is awaited, or it was answered.
Started(endpoint, awaiting) == pc = awaiting \/ Fetched(endpoint)

IsPrefix(s, t) == Len(s) <= Len(t) /\ s = SubSeq(t, 1, Len(s))

\* The candidates the strategies that read the page produced.
PageCandidates ==
    LET page == ResponseOf("page")
    IN  extractFormats(page, extractVideoData(page).videoData).formats

EmbedCandidates == extractFromEmbed(ResponseOf("embed"))

\* C11: the fetches of a TikTok request are answered one after the other in
\* the order redirect, page, embed, API; the embed fetch starts only after
\* the page was answered and its strategies produced no candidate; the API
\* fetch starts only after the embed was answered too and page and embed
\* together produced no candidate.
C11_FallbackFetchesShortCircuit ==
    platform = s_tiktok =>
        /\ IsPrefix(Endpoints, <<"head", "page", "embed", "api">>)
        /\ Started("embed", "tiktokEmbed") =>
              /\ Fetched("page")
              /\ PageCandidates = <<>>
        /\ Started("api", "tiktokApi") =>
              /\ Fetched("page") /\ Fetched("embed")
              /\ PageCandidates \o EmbedCandidates = <<>>
        /\ pc = "tiktokPage" => Endpoints = <<"head">>
        /\ pc = "tiktokEmbed" => Endpoints = <<"head", "page">>
        /\ pc = "tiktokApi" => Endpoints = <<"head", "page", "embed">>

\* A request answered from the API after the page and the embed gave nothing.
C11_ApiReachedAfterEmptyPageAndEmbed ==
    /\ Returned
    /\ Endpoints = <<"head", "page", "embed", "api">>
    /\ ResponseOf("page").ok
    /\ ResponseOf("embed").ok
    /\ Len(extracted) = 2

\* The fetches that failed: a status that is not 2xx, or no response at all.
FailedFetches == {i \in 1..Len(log) : ~log[i].response.ok}

\* The strategy whose fetch comes after that of a strategy, and where the
\* call awaits it.
NextStrategy(endpoint) == IF endpoint = "page" THEN "embed" ELSE "api"
AwaitingOf(endpoint) == IF endpoint = "embed" THEN "tiktokEmbed" ELSE "tiktokApi"

\* The chain went on after the i-th fetch: the fetch of the next strategy
\* has started.
ChainWentOn(i) ==
    Started(NextStrategy(log[i].endpoint), AwaitingOf(NextStrategy(log[i].endpoint)))

\* C12 as stated: a fetch failure at a strategy that is not the last of its
\* chain (the TikTok page and embed) is swallowed and the chain goes on to
\* the next strategy; a failure at the last strategy (the TikTok API, the
\* YouTube watch page) ends the request in failure.
C12_OnlyLastFailureIsFatal ==
    \A i \in FailedFetches :
        /\ log[i].endpoint \in {"page", "embed"} => ChainWentOn(i)
        /\ log[i].endpoint \in {"api", "watch"} => Failed

\* C12 as amended: a fetch failure at the embed strategy is swallowed and the
\* chain goes on to the API; a failure of the page fetch, the first strategy,
\* ends the request with the error of the fetch and no fallback is tried; a
\* failure at the last strategy ends the request in failure: the YouTube
\* watch page with the error of the fetch, the TikTok API, whose own failure
\* is swallowed, for want of any format.
C12_FirstAndLastFailuresAreFatal ==
    \A i \in FailedFetches :
        /\ log[i].endpoint = "embed" => ChainWentOn(i)
        /\ log[i].endpoint \in {"page", "watch"} =>
              /\ Failed
              /\ error.message = "HTTP error! status: "
              /\ i = Len(log)
        /\ log[i].endpoint = "api" =>
              /\ Failed
              /\ error.message = "No video formats found"

\* The embed fetch failed and the request was answered from the API.
C12_EmbedFailureSwallowed ==
    /\ Returned
    /\ Fetched("embed") /\ ~ResponseOf("embed").ok
    /\ Fetched("api") /\ ResponseOf("api").ok

\* A blob with what is malformed in it left out: text that is no JSON and
\* the value null count as no blob, a media url that is no string as no url.
WithoutMalformed(blob) ==
    IF blob \in {InvalidJson, JsonNull} THEN Missing
    ELSE IF blob = Missing THEN Missing
    ELSE [f \in DOMAIN blob |-> IF f # "others" /\ blob[f] = NotAString THEN Absent
                                 ELSE blob[f]]

\* The page with each of its blobs treated as empty where it is malformed.
TreatedAsEmpty(page) ==
    [page EXCEPT !.jsonLd = WithoutMalformed(@),
                 !.nextData = IF @ \in {Missing, InvalidJson, JsonNull}
                              THEN WithoutMalformed(@)
                              ELSE [videoData |-> WithoutMalformed(@.videoData)],
                 !.sigiState = IF @ \in {Missing, InvalidJson, JsonNull}
                               THEN WithoutMalformed(@)
                               ELSE [item |-> WithoutMalformed(@.item)]]

\* C13: a page whose data blobs are malformed (no JSON, the value null, a
\* media url that is no string) is read as the same page with those blobs
\* empty: the request never fails with an error raised on the blob, and the
\* chain holds, after the page, the candidates of that page.
C13_MalformedBlobTreatedAsEmpty ==
    (Fetched("page") /\ ResponseOf("page").ok) =>
        LET clean == TreatedAsEmpty(ResponseOf("page"))
        IN  /\ ~(Failed /\ error.message = "Failed to fetch TikTok info: TypeError")
            /\ Endpoints = <<"head", "page">> =>
                  candidates = extractFormats(clean, extractVideoData(clean).videoData).formats

\* The same for the blobs that are no JSON at all, and for the value null
\* in a blob other than the first.
C13_InvalidJsonTreatedAsEmpty ==
    (Fetched("page") /\ ResponseOf("page").jsonLd \in {Missing, InvalidJson, EmptyObject}) =>
        C13_MalformedBlobTreatedAsEmpty

\* A page whose JSON-LD blob is no JSON was answered from its next blob.
C13_InvalidJsonLdSkipped ==
    /\ Returned
    /\ Endpoints = <<"head", "page">>
    /\ ResponseOf("page").jsonLd = InvalidJson
    /\ ResponseOf("page").videoSrcs = <<>>
    /\ ResponseOf("page").ogVideo = Absent /\ ResponseOf("page").ogVideoUrl = Absent

\* An absolute url: a scheme of letters, then '://'.
IsAbsoluteUrl(url) ==
    \E i \in 2..(Len(url) - 2) :
        /\ SubSeq(url, i, i + 2) = <<":", "/", "/">>
        /\ \A k \in 1..(i - 1) : url[k] \in Range(LowerLetters) \cup Range(UpperLetters)

AllAbsolute(formats) == \A i \in 1..Len(formats) : IsAbsoluteUrl(formats[i].url)

\* C14: every record an extractor returns, and every record of a response,
\* has an absolute url: a candidate with a relative or an empty url was
\* dropped.
C14_ReturnedUrlsAreAbsolute ==
    /\ pc \in {"stages", "done"} => AllAbsolute(extracted)
    /\ Returned => AllAbsolute(result.formats)

\* The same for the requests answered from the page alone, whose strategies
\* test startsWith('http'), and for those of YouTube.
C14_PageUrlsAreAbsolute ==
    (platform = s_youtube \/ ~Fetched("embed")) => C14_ReturnedUrlsAreAbsolute

\* A page with a relative <video src> was answered from its other urls.
C14_RelativePageUrlDropped ==
    /\ Returned
    /\ Endpoints = <<"head", "page">>
    /\ ResponseOf("page").videoSrcs = <<t_relative>>
    /\ Len(extracted) >= 1

-----------------------------------------------------------------------------
(* The claims about concurrent calls *)

\* The response a log holds for an endpoint.
ResponseIn(lg, endpoint) == lg[CHOOSE i \in 1..Len(lg) : lg[i].endpoint = endpoint].response

InLog(lg, endpoint) == \E i \in 1..Len(lg) : lg[i].endpoint = endpoint

\* What a call hands to its caller: the formats in their order and the
\* download url, or the error.
OutcomeOf(l) ==
    [failed |-> l.pc = "failed",
     error |-> l.error,
     formats |-> IF l.pc = "done" THEN l.result.formats ELSE <<>>,
     downloadUrl |-> IF l.pc = "done" THEN l.result.downloadUrl ELSE Absent]

FailsAlone(message, arg) ==
    {[failed |-> TRUE, error |-> [message |-> message, arg |-> arg], formats |-> <<>>,
      downloadUrl |-> Absent]}

StagesAlone(formats, req, plat) ==
    {[failed |-> st.error # NoError,
      error |-> st.error,
      formats |-> IF st.error = NoError THEN st.formats ELSE <<>>,
      downloadUrl |-> IF st.error = NoError THEN st.downloadUrl ELSE Absent] :
        st \in RunStages(formats, ParamsOf(req), plat)}

\* extractYouTubeVideo run from start to end on the responses of a log.
YouTubeAlone(req, lg) ==
    IF extractVideoId(req.url) = Undefined THEN FailsAlone("Invalid YouTube URL", <<>>)
    ELSE IF ~ResponseIn(lg, "watch").ok THEN FailsAlone("HTTP error! status: ", <<>>)
    ELSE UNION {IF formats = <<>> THEN FailsAlone("No video formats found", <<>>)
                ELSE IF UrlFilter(formats) = <<>>
                THEN FailsAlone("No formats with valid URLs found", <<>>)
                ELSE StagesAlone(UrlFilter(formats), req, s_youtube) :
                    formats \in extractFormatsFromPlayerResponse(ResponseIn(lg, "watch"))}

\* fetchTikTokInfo run from start to end on the responses of a log: the
\* error it throws and the format lists it may return (none when the log
\* lacks the response of a fetch that run issues).
TikTokInfoAlone(url, lg) ==
    LET page == ResponseIn(lg, "page")
        data == extractVideoData(page)
        found == extractFormats(page, data.videoData)
        needsEmbed == found.formats = <<>> /\ getEmbedUrl(url) # Undefined
        afterEmbed == IF needsEmbed THEN extractFromEmbed(ResponseIn(lg, "embed"))
                      ELSE found.formats
        needsApi == afterEmbed = <<>> /\ Truthy(TikTokVideoId(url))
        afterApi == IF needsApi THEN extractFromApi(ResponseIn(lg, "api")) ELSE afterEmbed
    IN  IF ~page.ok THEN [message |-> "HTTP error! status: ", formats |-> {}]
        ELSE IF data.threw \/ found.threw
        THEN [message |-> "Failed to fetch TikTok info: TypeError", formats |-> {}]
        ELSE IF needsEmbed /\ ~InLog(lg, "embed") THEN [message |-> "", formats |-> {}]
        ELSE IF needsApi /\ ~InLog(lg, "api") THEN [message |-> "", formats |-> {}]
        ELSE [message |-> "", formats |-> TikTokInfoFormats(afterApi)]

\* extractTikTokVideo run from start to end on the responses of a log.
TikTokAlone(req, lg) ==
    IF ~ResponseIn(lg, "head").ok THEN FailsAlone("Invalid TikTok URL", <<>>)
    ELSE LET info == TikTokInfoAlone(SanitizedUrl(ResponseIn(lg, "head").url), lg)
         IN  IF info.message # "" THEN FailsAlone(info.message, <<>>)
             ELSE UNION {IF formats = <<>> THEN FailsAlone("No video formats found", <<>>)
                         ELSE StagesAlone(formats, req, s_tiktok) : formats \in info.formats}

\* The outcomes of extractVideo for a request, run from start to end with
\* nothing else in flight, on the responses of a log.
Alone(req, lg) ==
    IF ~Truthy(req.url) THEN FailsAlone("URL is required", <<>>)
    ELSE IF detectPlatform(req.url) = s_youtube THEN YouTubeAlone(req, lg)
    ELSE IF detectPlatform(req.url) = s_tiktok THEN TikTokAlone(req, lg)
    ELSE FailsAlone("Unsupported platform. Currently supports: ", getSupportedPlatforms)

\* C15: whatever the interleaving of two calls at their awaits, the outcome
\* of each (formats in their order, downloadUrl, or error) is an outcome of
\* the same request run alone on the responses its own fetches got.
C15_SameResultAsAlone ==
    \A l \in {Locals, peer} :
        l.pc \in {"done", "failed"} => OutcomeOf(l) \in Alone(l.request, l.log)

\* A call for a TikTok url ran from its page fetch to its response while
\* another call for the same url was suspended at its API fetch, and the
\* two got different answers.
C15_AnsweredWhileOtherSuspended ==
    /\ Returned
    /\ Endpoints = <<"head", "page", "embed">>
    /\ peer.pc = "tiktokApi"
    /\ peer.request.url = request.url
    /\ peer.log # SubSeq(log, 1, Len(peer.log))

-----------------------------------------------------------------------------
(* The claims about the filters and the ranking *)

\* C16: a response whose formats passed the quality filter is left as it is
\* by the same filter with the same token, and a response whose formats were
\* ranked for 'highest' is left in its order by the platform's ranking.
C16_FilterAndRankingAreIdempotent ==
    /\ (Returned /\ "quality" \in Range(ran)) =>
          QualityFilter(result.formats, params.quality) = result.formats
    /\ (Returned /\ "rank" \in Range(ran)) =>
          RankOutcomes(result.formats, platform) = {result.formats}

\* A ranking that moved a record and left two different records that rank
\* equally next to each other.
C16_RankedWithTies ==
    /\ Returned
    /\ "rank" \in Range(ran)
    /\ result.formats # extracted
    /\ \E i \in 1..(Len(result.formats) - 1) :
          /\ PlatformCompare(result.formats[i], result.formats[i + 1]) = 0
          /\ result.formats[i] # result.formats[i + 1]

\* The records with their quality labels in lower case.
Lowered(formats) ==
    [i \in 1..Len(formats) |-> [formats[i] EXCEPT !.quality = ToLowerCase(@)]]

RankingOf(plat) == IF plat = s_youtube THEN "youtube" ELSE "tiktok"

\* C17: the 'highest' ranking of a platform orders the records totally and
\* ignores the letter case of their labels: records whose labels differ in
\* case only (and whose sizes agree) compare equal, and the order of the
\* response is an order the ranking gives with every label in lower case.
C17_RankingIgnoresCase ==
    (Returned /\ params.quality = s_highest) =>
        /\ ConsistentCompare(Considered, RankingOf(platform))
        /\ \A i, j \in 1..Len(result.formats) :
              LET a == result.formats[i]
                  b == result.formats[j]
              IN  (ToLowerCase(a.quality) = ToLowerCase(b.quality) /\ a.size = b.size) =>
                      PlatformCompare(a, b) = 0
        /\ Lowered(result.formats) \in RankOutcomes(Lowered(Considered), platform)

\* The part of C17 that holds: each ranking orders the records totally.
C17_RankingIsTotal ==
    (Returned /\ params.quality = s_highest) =>
        ConsistentCompare(Considered, RankingOf(platform))

\* A 'highest' response with labels that differ in case only.
C17_LabelsDifferInCase ==
    /\ Returned
    /\ params.quality = s_highest
    /\ \E i, j \in 1..Len(result.formats) :
          /\ result.formats[i].quality # result.formats[j].quality
          /\ ToLowerCase(result.formats[i].quality) = ToLowerCase(result.formats[j].quality)

-----------------------------------------------------------------------------
(* The claims about the YouTube normalizer *)

\* The cipher lacks its url sub-field, or its url cannot be decoded.
Undecodable(cipher) ==
    LET url == SearchParamsGet(URLSearchParams(cipher), s_url)
    IN  ~Truthy(url) \/ DecodeURIComponent(url) = URIError

\* The descriptor has no url of its own and a cipher that fails to decode.
CipherFails(descriptor) ==
    /\ ~Truthy(descriptor.url)
    /\ Truthy(descriptor.signatureCipher)
    /\ Undecodable(descriptor.signatureCipher)

Count(seq, x) == Cardinality({i \in 1..Len(seq) : seq[i] = x})

\* The same records, each as often, in whatever order.
SameRecords(a, b) ==
    /\ Len(a) = Len(b)
    /\ \A x \in Range(a) : Count(a, x) = Count(b, x)

\* The descriptors of the player response, adaptiveFormats first.
Descriptors ==
    playerResponse.streamingData.adaptiveFormats \o playerResponse.streamingData.formats

HasStreamingData ==
    /\ platform = s_youtube
    /\ playerResponse # Missing
    /\ playerResponse.ok
    /\ playerResponse.streamingData # Missing

\* C18: the descriptors whose cipher fails to decode add no record, and the
\* other descriptors of the player response are normalized as without them;
\* if one of those yields a url the extraction does not fail, and the records
\* it returns are theirs.
C18_CipherFailureDropsOnlyItsDescriptor ==
    HasStreamingData =>
        LET others == SelectSeq(Descriptors, LAMBDA d : ~CipherFails(d))
        IN  /\ SameRecords(PushedFormats(playerResponse.streamingData), NormalizeAll(others))
            /\ NormalizeAll(others) # <<>> =>
                  /\ pc \in {"stages", "done"} \/ (Failed /\ ran # <<>>)
                  /\ SameRecords(extracted, NormalizeAll(others))

\* A player response with a cipher without url and a cipher whose url does
\* not decode, answered from its other descriptors.
C18_AnsweredDespiteCipherFailures ==
    /\ HasStreamingData
    /\ Returned
    /\ \E i, j \in 1..Len(Descriptors) :
          /\ CipherFails(Descriptors[i])
          /\ SearchParamsGet(URLSearchParams(Descriptors[i].signatureCipher), s_url) = Undefined
          /\ CipherFails(Descriptors[j])
          /\ SearchParamsGet(URLSearchParams(Descriptors[j].signatureCipher), s_url) # Undefined
    /\ Len(extracted) = 3

\* C19: the record of a descriptor has the type audio exactly when the type
\* part of its MIME string, the text before '/', is 'audio' letter for
\* letter, and the type video otherwise, a descriptor without mimeType
\* included; its container is the subtype part, the text between '/' and the
\* parameters, and 'unknown' where the MIME string has no subtype.
C19_TypeAndContainerFromMime ==
    mimeOut # Missing =>
        /\ mimeOut.type = IF mimeIn.type = s_audio THEN s_audio ELSE s_video
        /\ mimeOut.format = IF mimeIn.subtype \in {NoPart, <<>>} THEN s_unknown
                            ELSE mimeIn.subtype

\* A descriptor with the MIME string 'Audio/webm;codecs=a/b' was normalized.
C19_CapitalizedAudioWithParameters ==
    /\ mimeOut # Missing
    /\ mimeIn.type = <<"A", "u", "d", "i", "o">>
    /\ mimeIn.subtype = q_webm
    /\ Includes(mimeIn.mimeType, <<"a", "/", "b">>)


-----------------------------------------------------------------------------
(* The claims about GET /formats *)

OfType(formats, type) == \A i \in 1..Len(formats) : formats[i].type = type

\* C20: GET /formats answers only with a list that is not empty, and when
\* the query names a type every record of the list has that type, whatever
\* the platform; a query whose type leaves no record fails.
C20_ListedFormatsHaveRequestedType ==
    Returned =>
        /\ result.formats # <<>>
        /\ Truthy(request.type) => OfType(result.formats, request.type)

\* The same for the urls of YouTube: the list answered is not empty and of
\* the type the query names.
C20_YouTubeListHasRequestedType ==
    Returned /\ platform = s_youtube =>
        /\ result.formats # <<>>
        /\ Truthy(request.type) => OfType(result.formats, request.type)

\* No list answered is empty, on either platform.
C20_ListedFormatsNotEmpty == Returned => result.formats # <<>>

\* A query for the audio formats of a TikTok url was answered with a list.
C20_TikTokAudioAnswered ==
    /\ Returned
    /\ platform = s_tiktok
    /\ request.type = s_audio

\* A query for the audio formats of a YouTube url whose player response
\* holds video descriptors only failed at the handler's check of the list.
C20_YouTubeTypeLeftNoRecord ==
    /\ Failed
    /\ platform = s_youtube
    /\ request.type = s_audio
    /\ error.message = "No valid formats found with URLs"
    /\ playerResponse.streamingData # Missing

=============================================================================
